---- MODULE Spec2Model ----
(***************************************************************************)
(* Model of the time-parameterised file-discovery and command-assembly     *)
(* code of METplus:                                                        *)
(*   - GridDiagWrapper (metplus/wrappers/grid_diag_wrapper.py): catalog    *)
(*     building, subsetting, list-file naming, the per-runtime sequence    *)
(*     of run_at_time_custom and the CUSTOM_LOOP_LIST loop;                *)
(*   - analysis_by_lead_time (ush/series_by_lead.py): the forecast-hour    *)
(*     loop with its tile discovery, ASCII manifests and series_analysis   *)
(*     invocations.                                                        *)
(* One behaviour runs one of the two programs (variable prog).             *)
(*                                                                         *)
(* Encodings.  A datetime is the number of hours since 2020-01-01 00:00,   *)
(* a lead is a number of hours (a relativedelta of hours), and the         *)
(* wildcard '*' of a time axis is the value Star.  Python's None for a     *)
(* string result is the string None; a Python list is a sequence.          *)
(***************************************************************************)
EXTENDS Integers, Sequences, FiniteSets, TLC

\* ------------------------------------------------------------- bounds
\* Largest number of entries of c_dict['ALL_FILES'].
MaxCatalog == 2

\* Largest number of times analysis_by_lead_time is run on the same
\* output directory.
MaxRuns == 2
MaxCalls == 2

\* ------------------------------------------------------- value domains
\* The wildcard '*' of a time axis.
Star == -1

None == "None"

\* Python's None where a list is expected.
NoneList == << None >>

Falsy(s) == s = None \/ s = ""

InitHours == {0, 6}
LeadHours == {0, 6}

\* Fully concrete time_info dictionaries: valid = init + lead.
ConcreteTimes ==
    {[init |-> i, valid |-> i + l, lead |-> l] : i \in InitHours, l \in LeadHours}

\* time_info with wildcards, as the runtime frequencies produce them:
\* all axes, all but init, all but valid, all but lead.
WildTimes ==
    {[init |-> Star, valid |-> Star, lead |-> Star]}
    \cup {[init |-> t.init, valid |-> Star, lead |-> Star] : t \in ConcreteTimes}
    \cup {[init |-> Star, valid |-> t.valid, lead |-> Star] : t \in ConcreteTimes}
    \cup {[init |-> Star, valid |-> Star, lead |-> t.lead] : t \in ConcreteTimes}

TimeInfos == ConcreteTimes \cup WildTimes

\* Times for which the catalog is built.
FileTimes == ConcreteTimes \cup {[init |-> 0, valid |-> Star, lead |-> Star]}

\* ------------------------------------------------------ pure helpers
RECURSIVE Flatten(_)
Flatten(ss) == IF ss = <<>> THEN <<>> ELSE Head(ss) \o Flatten(Tail(ss))

RECURSIVE Join(_, _)
Join(sep, ss) ==
    IF ss = <<>> THEN ""
    ELSE IF Len(ss) = 1 THEN ss[1]
    ELSE ss[1] \o sep \o Join(sep, Tail(ss))

\* str(n).zfill(w) for 0 <= n
RECURSIVE zfill(_, _)
zfill(s, w) == IF Len(s) >= w THEN s ELSE zfill("0" \o s, w)

\* datetime.strftime('%Y%m%d%H%M%S') of the datetime dt hours after
\* 2020-01-01 00:00:00 (dt below one month).
strftime(dt) ==
    "202001" \o zfill(ToString(1 + (dt \div 24)), 2)
             \o zfill(ToString(dt % 24), 2) \o "0000"

\* time_util.ti_get_seconds_from_lead(lead, valid): the lead in seconds.
ti_get_seconds_from_lead(lead, valid) == lead * 3600

\* ------------------------------------------------- input files on disk
TilePath(tag, i, l) ==
    "/in/" \o tag \o "_i" \o ToString(i) \o "_f" \o ToString(l)

DataFile(tag, i, l) ==
    [path |-> TilePath(tag, i, l), tag |-> tag,
     time_info |-> [init |-> i, valid |-> i + l, lead |-> l]]

\* Directory listings (in discovery order) of GRID_DIAG_INPUT_DIR.
DiskFull ==
    << DataFile("fcst", 0, 0), DataFile("obs", 0, 0),
       DataFile("fcst", 0, 6), DataFile("obs", 0, 6),
       DataFile("obs", 6, 0), DataFile("fcst", 6, 0),
       DataFile("fcst", 6, 6) >>

DiskSparse == << DataFile("obs", 0, 6), DataFile("fcst", 0, 6) >>

Disks == {DiskFull, DiskSparse}

\* GRID_DIAG_INPUT_TEMPLATE lists.  A template is named by the product it
\* matches: "any" matches every product, "none" matches no file.
TemplateLists ==
    { <<"fcst", "obs">>, <<"any", "fcst">>, <<"none", "obs", "any">> }

TemplateMatches(template, f) == template = "any" \/ template = f.tag

\* CUSTOM_LOOP_LIST values ([''] when no custom list is configured).
CustomLists == { <<"">>, <<"a", "b">> }

\* --------------------------------------------------------- time matching
AxisNames == {"init", "valid", "lead"}

\* RuntimeFreqWrapper.compare_time_info
compare_time_info(runtime, filetime) ==
    \A a \in AxisNames :
        runtime[a] = Star \/ filetime[a] = Star \/ runtime[a] = filetime[a]

\* CommandBuilder.find_data(time_info, return_list=True) for the template
\* in c_dict['INPUT_TEMPLATE']: the paths on disk that the template
\* matches for time_info, in directory order.
find_data(dsk, template, time_info) ==
    LET hit(f) == TemplateMatches(template, f)
                  /\ compare_time_info(time_info, f.time_info)
        found == SelectSeq(dsk, hit)
    IN [k \in 1..Len(found) |-> found[k].path]

\* ===================================================== GridDiagWrapper
\* CommandBuilder.get_field_info: the formatted entries of one field, or
\* None for a field the configuration cannot describe (field \in bad).
FieldNames == {"TMP", "UGRD"}
FieldLists == { <<>>, <<"TMP">>, <<"TMP", "UGRD">> }
get_field_info(v_name, bad) ==
    IF v_name \in bad THEN NoneList ELSE << "{ name=" \o v_name \o "; }" >>

\* do_string_sub for a template that ends in {custom}
do_string_sub(template, tinfo) == template \o tinfo.custom

\* find_input_files with return in the place of continue, line 241: the
\* first template that finds nothing ends the search.
RECURSIVE find_input_files_stops_at_empty(_, _, _)
find_input_files_stops_at_empty(dsk, templates, tinfo) ==
    IF templates = <<>> THEN <<>>
    ELSE LET input_files == find_data(dsk, Head(templates), tinfo)
         IN IF input_files = <<>>
            THEN <<>>
            ELSE input_files
                   \o find_input_files_stops_at_empty(dsk, Tail(templates), tinfo)

\* GridDiagWrapper.find_input_files, lines 236-245
RECURSIVE find_input_files(_, _, _)
find_input_files(dsk, templates, tinfo) ==
    IF templates = <<>> THEN <<>>
    ELSE LET input_files == find_data(dsk, Head(templates), tinfo)
         IN IF input_files = <<>>
            THEN find_input_files(dsk, Tail(templates), tinfo)
            ELSE input_files \o find_input_files(dsk, Tail(templates), tinfo)

\* GridDiagWrapper.get_files_from_time, lines 268-275 (find_input_files
\* never returns None, so the dictionary is always returned)
get_files_from_time(dsk, templates, tinfo) ==
    [time_info |-> tinfo, input |-> find_input_files(dsk, templates, tinfo)]

\* get_list_file_name that puts the custom string in the name.
get_list_file_name_with_custom(tinfo) ==
    LET init == IF tinfo.init = Star THEN "ALL" ELSE strftime(tinfo.init)
        valid == IF tinfo.valid = Star THEN "ALL" ELSE strftime(tinfo.valid)
        lead == IF tinfo.lead = Star THEN "ALL"
                ELSE ToString(ti_get_seconds_from_lead(tinfo.lead, tinfo.valid))
    IN "grid_diag_files_init_" \o init \o "_valid_" \o valid
           \o "_lead_" \o lead \o tinfo.custom \o ".txt"

\* get_list_file_name where a wildcard valid time also turns the lead
\* into ALL.
get_list_file_name_valid_gates_lead(tinfo) ==
    LET init == IF tinfo.init = Star THEN "ALL" ELSE strftime(tinfo.init)
        valid == IF tinfo.valid = Star THEN "ALL" ELSE strftime(tinfo.valid)
        lead == IF tinfo.lead = Star \/ tinfo.valid = Star THEN "ALL"
                ELSE ToString(ti_get_seconds_from_lead(tinfo.lead, tinfo.valid))
    IN "grid_diag_files_init_" \o init \o "_valid_" \o valid
           \o "_lead_" \o lead \o ".txt"

\* GridDiagWrapper.get_list_file_name, lines 312-328
get_list_file_name(tinfo) ==
    LET init == IF tinfo.init = Star THEN "ALL" ELSE strftime(tinfo.init)
        valid == IF tinfo.valid = Star THEN "ALL" ELSE strftime(tinfo.valid)
        lead == IF tinfo.lead = Star THEN "ALL"
                ELSE ToString(ti_get_seconds_from_lead(tinfo.lead, tinfo.valid))
    IN "grid_diag_files_init_" \o init \o "_valid_" \o valid
           \o "_lead_" \o lead \o ".txt"

\* CommandBuilder.write_list_file: the path of the list file and the
\* file system after writing file_list to it (one path per line,
\* replacing what the file held).
list_file_path(name) == "/stage/file_lists/" \o name
write_list_file(name, file_list, fs) ==
    [p \in DOMAIN fs \cup {list_file_path(name)} |->
        IF p = list_file_path(name) THEN file_list ELSE fs[p]]

\* The loop of subset_input_files with break in the place of continue,
\* line 290: the first entry that does not match ends the loop.
RECURSIVE subset_loop_stops_at_mismatch(_, _, _)
subset_loop_stops_at_mismatch(all_files, tinfo, idx) ==
    IF idx > Len(all_files)
    THEN [picked |-> <<>>, all_input_files |-> <<>>]
    ELSE LET file_dict == all_files[idx]
             rest == subset_loop_stops_at_mismatch(all_files, tinfo, idx + 1)
         IN IF ~compare_time_info(tinfo, file_dict.time_info)
            THEN [picked |-> <<>>, all_input_files |-> <<>>]
            ELSE [picked |-> <<idx>> \o rest.picked,
                  all_input_files |-> file_dict.input \o rest.all_input_files]

\* The loop of subset_input_files where the files of an entry are put in
\* front of the list, not at its end.
RECURSIVE subset_loop_prepends(_, _, _)
subset_loop_prepends(all_files, tinfo, idx) ==
    IF idx > Len(all_files)
    THEN [picked |-> <<>>, all_input_files |-> <<>>]
    ELSE LET file_dict == all_files[idx]
             rest == subset_loop_prepends(all_files, tinfo, idx + 1)
         IN IF ~compare_time_info(tinfo, file_dict.time_info)
            THEN rest
            ELSE [picked |-> <<idx>> \o rest.picked,
                  all_input_files |-> rest.all_input_files \o file_dict.input]

\* The loop of subset_input_files, lines 285-292, from entry idx on:
\* picked = the indices of the entries whose 'input' was added,
\* all_input_files = the accumulated list.
RECURSIVE subset_loop(_, _, _)
subset_loop(all_files, tinfo, idx) ==
    IF idx > Len(all_files)
    THEN [picked |-> <<>>, all_input_files |-> <<>>]
    ELSE LET file_dict == all_files[idx]
             rest == subset_loop(all_files, tinfo, idx + 1)
         IN IF ~compare_time_info(tinfo, file_dict.time_info)
            THEN rest
            ELSE [picked |-> <<idx>> \o rest.picked,
                  all_input_files |-> file_dict.input \o rest.all_input_files]

\* subset_input_files without the test of line 295: the list file is
\* written also when no input file was found.
subset_input_files_always_writes(all_files, tinfo, fs) ==
    LET r == subset_loop(all_files, tinfo, 1)
        list_file_name == get_list_file_name(tinfo)
    IN [ret |-> list_file_path(list_file_name),
        fs |-> write_list_file(list_file_name, r.all_input_files, fs),
        picked |-> r.picked,
        call |-> << [name |-> list_file_name, files |-> r.all_input_files] >>]

\* GridDiagWrapper.subset_input_files, lines 277-300: ret is the value
\* returned, fs the file system afterwards, call the arguments given to
\* write_list_file (<<>> when it was not called).
subset_input_files(all_files, tinfo, fs) ==
    LET r == subset_loop(all_files, tinfo, 1)
        list_file_name == get_list_file_name(tinfo)
    IN IF r.all_input_files = <<>>
       THEN [ret |-> None, fs |-> fs, picked |-> r.picked, call |-> <<>>]
       ELSE [ret |-> list_file_path(list_file_name),
             fs |-> write_list_file(list_file_name, r.all_input_files, fs),
             picked |-> r.picked,
             call |-> << [name |-> list_file_name, files |-> r.all_input_files] >>]

\* The loop of set_data_field where the assignment to field_list of line
\* 217 ends the iteration after the first field.
all_fields_of_first_field_only(field_list, bad) ==
    IF field_list = <<>> THEN <<>>
    ELSE get_field_info(Head(field_list), bad)

\* The loop of set_data_field, lines 215-224: the formatted fields, or
\* NoneList when get_field_info returned None for some field.
RECURSIVE all_fields_of(_, _)
all_fields_of(field_list, bad) ==
    IF field_list = <<>> THEN <<>>
    ELSE LET info == get_field_info(Head(field_list), bad)
             rest == all_fields_of(Tail(field_list), bad)
         IN IF info = NoneList THEN NoneList
            ELSE IF rest = NoneList THEN NoneList ELSE info \o rest

\* GridDiagWrapper.set_data_field, lines 198-228: ret the value returned,
\* data_field the new c_dict['DATA_FIELD'], logged the number of
\* log_error calls.
set_data_field(field_list, bad, cd) ==
    IF field_list = <<>>
    THEN [ret |-> FALSE, data_field |-> cd.DATA_FIELD, logged |-> 1]
    ELSE LET all_fields == all_fields_of(field_list, bad)
         IN IF all_fields = NoneList
            THEN [ret |-> FALSE, data_field |-> cd.DATA_FIELD, logged |-> 0]
            ELSE [ret |-> TRUE, data_field |-> Join(",", all_fields),
                  logged |-> 0]

\* get_command with the arguments put before the input files.
get_command_args_first(app_path, inf, ar, out_path, verbosity) ==
    app_path
      \o " " \o Join(" ", ar)
      \o Join("", [k \in 1..Len(inf) |-> " -data " \o inf[k]])
      \o " -out " \o out_path
      \o " -v " \o verbosity

\* GridDiagWrapper.get_command, lines 138-154
get_command(app_path, inf, ar, out_path, verbosity) ==
    app_path
      \o Join("", [k \in 1..Len(inf) |-> " -data " \o inf[k]])
      \o " " \o Join(" ", ar)
      \o " -out " \o out_path
      \o " -v " \o verbosity

\* set_environment_variables where the test of lines 109-114 leaves out
\* REGRID_TO_GRID.
set_environment_variables_no_to_grid_test(cd) ==
    LET regrid == cd.REGRID_TO_GRID \o cd.REGRID_METHOD \o cd.REGRID_WIDTH
                    \o cd.REGRID_VLD_THRESH \o cd.REGRID_SHAPE
    IN [DATA_FILE_TYPE |-> cd.DATA_FILE_TYPE,
        DATA_FIELD |-> cd.DATA_FIELD,
        REGRID_DICT |-> IF cd.REGRID_METHOD # "" \/ cd.REGRID_WIDTH # ""
                           \/ cd.REGRID_VLD_THRESH # "" \/ cd.REGRID_SHAPE # ""
                        THEN "regrid = {" \o regrid \o "}" ELSE "",
        DESC |-> cd.DESC,
        VERIF_MASK |-> IF cd.VERIFICATION_MASK # ""
                       THEN "poly = " \o cd.VERIFICATION_MASK \o ";" ELSE ""]

\* GridDiagWrapper.set_environment_variables, lines 101-134 (the regrid
\* dictionary is built from the REGRID_* items of c_dict)
set_environment_variables(cd) ==
    LET regrid == cd.REGRID_TO_GRID \o cd.REGRID_METHOD \o cd.REGRID_WIDTH
                    \o cd.REGRID_VLD_THRESH \o cd.REGRID_SHAPE
    IN [DATA_FILE_TYPE |-> cd.DATA_FILE_TYPE,
        DATA_FIELD |-> cd.DATA_FIELD,
        REGRID_DICT |-> IF cd.REGRID_METHOD # "" \/ cd.REGRID_WIDTH # ""
                           \/ cd.REGRID_VLD_THRESH # "" \/ cd.REGRID_SHAPE # ""
                           \/ cd.REGRID_TO_GRID # ""
                        THEN "regrid = {" \o regrid \o "}" ELSE "",
        DESC |-> cd.DESC,
        VERIF_MASK |-> IF cd.VERIFICATION_MASK # ""
                       THEN "poly = " \o cd.VERIFICATION_MASK \o ";" ELSE ""]

\* The statements of run_at_time_custom, lines 169-196, in source order.
CustomSteps ==
    << "clear", "subset_input_files", "find_and_check_output_file",
       "set_data_field", "get_verification_mask",
       "set_command_line_arguments", "set_environment_variables", "build" >>

StepIndex(step) == CHOOSE k \in 1..Len(CustomSteps) : CustomSteps[k] = step

\* next_step with the return of line 184 missing.
next_step_no_return(step, ok) ==
    IF step = "build" THEN "for_custom"
    ELSE IF step \in {"subset_input_files", "find_and_check_output_file"}
            /\ ~ok
         THEN "for_custom"
         ELSE CustomSteps[StepIndex(step) + 1]

\* Control flow of run_at_time_custom: the position after statement step
\* returned ok.  "for_custom" is the loop head of run_at_time_once
\* (line 161), reached when run_at_time_custom returns.
next_step(step, ok) ==
    IF step = "build" THEN "for_custom"
    ELSE IF step \in {"subset_input_files", "find_and_check_output_file",
                      "set_data_field"} /\ ~ok
         THEN "for_custom"
         ELSE CustomSteps[StepIndex(step) + 1]

\* ================================================ analysis_by_lead_time
\* A file below the tile directory: the directory os.walk reports it in
\* and its name <kind>_TILE_F<hr>.<ext>.  A file that is no tile has kind
\* "OTHER".
TileFile(root, kind, hr, ext) ==
    [root |-> root, kind |-> kind, hr |-> hr, ext |-> ext]

FileName(f) == f.kind \o "_TILE_F" \o f.hr \o "." \o f.ext

\* os.path.join(root, filename)
FilePath(f) == f.root \o "/" \o FileName(f)

\* Trees below tile_dir, in the order os.walk lists the files.
TreeFull ==
    << TileFile("/tiles/d1", "FCST", "000", "grb2"),
       TileFile("/tiles/d1", "ANLY", "000", "grb2"),
       TileFile("/tiles/d1", "OTHER", "000", "txt"),
       TileFile("/tiles/d1", "FCST", "006", "grb2"),
       TileFile("/tiles/d2", "FCST", "006", "grb2"),
       TileFile("/tiles/d2", "ANLY", "006", "grb2"),
       TileFile("/tiles/d2", "FCST", "012", "nc") >>

TreeNoAnly ==
    << TileFile("/tiles/d1", "FCST", "000", "grb2"),
       TileFile("/tiles/d1", "FCST", "006", "grb2"),
       TileFile("/tiles/d1", "ANLY", "006", "grb2") >>

Trees == {TreeFull, TreeNoAnly, <<>>}

\* FCST_TILE_REGEX and ANLY_TILE_REGEX, ".*FCST_TILE_F.*.grb2" and
\* ".*ANLY_TILE_F.*.grb2": the kind and the extension a name must have;
\* prefix says that the pattern starts with ".*", so that it also matches
\* a name that follows a directory.
TileRegex(kind) == [kind |-> kind, ext |-> "grb2", prefix |-> TRUE]

\* re.match(regex, filename) for the name of a file
re_match(regex, f) == f.kind = regex.kind /\ f.ext = regex.ext

\* re.match(regex, path) for the full path of a file
re_match_path(regex, f) == regex.prefix /\ re_match(regex, f)

\* range(fhr_beg, fhr_end, fhr_inc): the end left out.
RECURSIVE fhr_range_exclusive(_, _, _)
fhr_range_exclusive(fhr_beg, fhr_end, fhr_inc) ==
    IF fhr_beg >= fhr_end THEN <<>>
    ELSE <<fhr_beg>> \o fhr_range_exclusive(fhr_beg + fhr_inc, fhr_end, fhr_inc)

\* range(fhr_beg, fhr_end + 1, fhr_inc), line 146
RECURSIVE fhr_range(_, _, _)
fhr_range(fhr_beg, fhr_end, fhr_inc) ==
    IF fhr_beg >= fhr_end + 1 THEN <<>>
    ELSE <<fhr_beg>> \o fhr_range(fhr_beg + fhr_inc, fhr_end, fhr_inc)

\* FHR_BEG, FHR_END, FHR_INC of the configuration.
HourRanges ==
    { [FHR_BEG |-> 0, FHR_END |-> 6, FHR_INC |-> 6],
      [FHR_BEG |-> 0, FHR_END |-> 12, FHR_INC |-> 6],
      [FHR_BEG |-> 0, FHR_END |-> 9, FHR_INC |-> 6],
      [FHR_BEG |-> 6, FHR_END |-> 6, FHR_INC |-> 12] }

\* VAR_LIST entries "<name>/<level>", split as re.match(r'(.*)/(.*)')
\* splits them.
VarList == << [name |-> "HGT", level |-> "P500"],
              [name |-> "TMP", level |-> "Z2"] >>

\* get_anly_fcst_files where the first file that is no match ends the
\* walk.
RECURSIVE get_anly_fcst_files_stops_at_mismatch(_, _, _, _)
get_anly_fcst_files_stops_at_mismatch(tree, type, filename_regex, cur_fhr) ==
    IF tree = <<>> THEN <<>>
    ELSE LET f == Head(tree)
             rest == get_anly_fcst_files_stops_at_mismatch(
                         Tail(tree), type, filename_regex, cur_fhr)
         IN IF re_match(filename_regex, f) /\ f.kind = type /\ f.hr = cur_fhr
            THEN <<f>> \o rest
            ELSE <<>>

\* get_anly_fcst_files, lines 878-904: type selects the pattern the
\* forecast hour is read with; a name of the other type has no such hour.
\* A returned path is the file it names, FilePath gives its text.
RECURSIVE get_anly_fcst_files(_, _, _, _)
get_anly_fcst_files(tree, type, filename_regex, cur_fhr) ==
    IF tree = <<>> THEN <<>>
    ELSE LET f == Head(tree)
             rest == get_anly_fcst_files(Tail(tree), type, filename_regex,
                                         cur_fhr)
         IN IF re_match(filename_regex, f) /\ f.kind = type /\ f.hr = cur_fhr
            THEN <<f>> \o rest
            ELSE rest

\* The loop of retrieve_fhr_tiles, lines 795-817, from tile k on with
\* fhr_tiles accumulated so far; a tile that does not match ends the
\* function with '' (line 804).
RECURSIVE retrieve_loop(_, _, _, _)
retrieve_loop(tile_list, type_regex, k, fhr_tiles) ==
    IF k > Len(tile_list) THEN fhr_tiles
    ELSE IF ~re_match_path(type_regex, tile_list[k]) THEN ""
    ELSE retrieve_loop(tile_list, type_regex, k + 1,
                       fhr_tiles \o FilePath(tile_list[k]) \o "\n")

\* retrieve_fhr_tiles, lines 771-819
retrieve_fhr_tiles(tile_list, type_regex) ==
    retrieve_loop(tile_list, type_regex, 1, "")

series_lead_out_dir == "/out/series_lead"
extract_tiles_dir == "/tiles"
series_lead_filtered_out_dir == "/filtered"

\* SERIES_ANALYSIS_FILTER_OPTS of the configuration; line 64 drops the
\* result of strip(), so a blank string is not turned into ''.
FilterOpts == {"", "-basin ML"}

\* A tile as apply_series_filters puts it below the filtered directory.
Refiled(f) ==
    [f EXCEPT !.root = IF f.root = "/tiles/d1" THEN "/filtered/d1"
                       ELSE "/filtered/d2"]

\* What apply_series_filters and prune_empty, lines 106-112, can add
\* below the filtered directory for the tiles of tree: nothing, the tiles
\* of one storm, or all tiles.
FilterResults(tree) ==
    LET kept == SelectSeq(tree, LAMBDA f : f.root = "/tiles/d2")
    IN { <<>>,
         [k \in 1..Len(kept) |-> Refiled(kept[k])],
         [k \in 1..Len(tree) |-> Refiled(tree[k])] }

\* The choice of tile_dir where the listing of the filtered directory is
\* not looked at.
choose_tile_dir_without_listdir(series_filter_opts, filtered) ==
    IF series_filter_opts # ""
    THEN series_lead_filtered_out_dir
    ELSE extract_tiles_dir

\* lines 92-141: tile_dir for the filter options and the files found
\* below the filtered directory (os.listdir, line 121).
choose_tile_dir(series_filter_opts, filtered) ==
    IF series_filter_opts # ""
    THEN IF filtered # <<>>
         THEN series_lead_filtered_out_dir
         ELSE extract_tiles_dir
    ELSE extract_tiles_dir
series_analysis_exe == "/met/bin/series_analysis"
series_anly_configuration_file == "/conf/SeriesAnalysisConfig_by_lead"

\* lines 147, 155-156, 167-168, 196-197
cur_fhr_of(fhr) == zfill(ToString(fhr), 3)
out_dir_of(fhr) == series_lead_out_dir \o "/" \o "series_F" \o cur_fhr_of(fhr)
ascii_fcst_file_of(fhr) == out_dir_of(fhr) \o "/FCST_FILES_F" \o cur_fhr_of(fhr)
ascii_anly_file_of(fhr) == out_dir_of(fhr) \o "/ANLY_FILES_F" \o cur_fhr_of(fhr)

\* Sets of ASCII files that cannot be opened for writing (IOError).
ReadOnlySets == { {}, {ascii_fcst_file_of(0)}, {ascii_anly_file_of(6)} }

\* open(path, 'a') followed by f.write(text), lines 179-180 and 209-210:
\* the content of path afterwards.
append_file(fs, path, text) ==
    [p \in DOMAIN fs \cup {path} |->
        IF p = path
        THEN (IF path \in DOMAIN fs THEN fs[path] ELSE "") \o text
        ELSE fs[p]]

\* lines 221-256: the series_analysis command of one variable
series_analysis_cmd(fhr, cur_var) ==
    LET fcst_param == "-fcst " \o ascii_fcst_file_of(fhr)
        obs_param == "-obs " \o ascii_anly_file_of(fhr)
        out_param == "-out " \o out_dir_of(fhr) \o "/series_F"
                       \o cur_fhr_of(fhr) \o "_" \o cur_var.name \o "_"
                       \o cur_var.level \o ".nc"
        config_param == "-config " \o series_anly_configuration_file
    IN series_analysis_exe \o " " \o " -v 4 " \o fcst_param \o " "
         \o obs_param \o " " \o config_param \o " " \o out_param

\* The file named by the -out parameter, lines 243-245, which
\* series_analysis writes when it succeeds.
series_analysis_out(fhr, cur_var) ==
    out_dir_of(fhr) \o "/series_F" \o cur_fhr_of(fhr) \o "_" \o cur_var.name
        \o "_" \o cur_var.level \o ".nc"

\* retrieve_nc_files, lines 722-768: the files series_F<hhh>*nc of the
\* series_F* directories; files holds the netCDF files written there.
retrieve_nc_files(files) == files

\* Control flow of lines 288-297: sys.exit(1) without netCDF files.
after_retrieve_nc_files(nc_list) ==
    IF Cardinality(nc_list) = 0 THEN "exit_1" ELSE "plots"

\* Control flow of one pass of the loop of lines 146-263: the position
\* after the ASCII file of a type was handled; empty says that the tiles
\* string was empty (continue, lines 177 and 207).
after_ascii(type, empty) ==
    IF empty THEN "for_fhr"
    ELSE IF type = "FCST" THEN "anly_tiles" ELSE "for_var"

\* Control flow after subprocess.check_output, lines 261-263: a non-zero
\* exit status raises CalledProcessError, which nothing catches.
after_check_output(rc) == IF rc = 0 THEN "for_var" ELSE "raised"

\* ================================================================ state
VARIABLES
    prog,        \* the program this behaviour runs
    disk,        \* the files of the input directory, in directory order
    c_dict,      \* GridDiagWrapper.c_dict
    time_info,   \* the time_info dictionary of the current runtime
    custom_idx,  \* position of the loop of run_at_time_once (1-based)
    pc,          \* the statement of the wrapper about to run
    infiles,     \* GridDiagWrapper.infiles
    args,        \* GridDiagWrapper.args
    outfile,     \* output path set by find_and_check_output_file
    env,         \* environment variables added by add_env_var
    list_files,  \* list files of the staging directory: path -> lines
    errors,      \* number of log_error calls (errorcount)
    picked,      \* ALL_FILES indices taken by the last subset_input_files
    wl_call,     \* arguments of write_list_file in the current runtime
    field_call,  \* what set_data_field was called with in the current runtime
    steps,       \* the statements the current runtime has run, in order,
                 \* each with the result it returned
    results,     \* outcome of each finished runtime of the current call
    opt,         \* p.opt, the parameters of series_by_lead
    tile_tree,   \* the files below the extract tiles directory, in
                 \* os.walk order
    filtered_tree, \* the files below the filtered directory
    tile_dir,    \* tile_dir, the directory the tiles are looked for in
    roots,       \* the directory each discovery of the current run walked
    readonly,    \* ASCII files that cannot be opened for writing
    ascii_files, \* ASCII files of the output directory: path -> content
    fhr_pos,     \* position of the loop over the forecast hours (1-based)
    lpc,         \* the statement of analysis_by_lead_time about to run
    fcst_tiles,  \* fcst_tiles of the current forecast hour
    anly_tiles,  \* anly_tiles of the current forecast hour
    var_pos,     \* position of the loop over var_list (1-based)
    os_environ,  \* os.environ, the variables the script sets
    cmds,        \* the commands the current run has executed
    ltrace,      \* what the current run has done, in order
    nruns,       \* number of runs of analysis_by_lead_time started
    nc_files,    \* netCDF files series_analysis wrote below the output directory
    ret          \* value returned by get_list_file_name called alone

gd_vars == << disk, c_dict, time_info, custom_idx, pc, infiles, args,
              outfile, env, list_files, errors, picked, wl_call, field_call,
              steps,
              results >>

lead_vars == << opt, tile_tree, filtered_tree, tile_dir, roots, readonly, ascii_files, fhr_pos, lpc,
                fcst_tiles, anly_tiles, var_pos, os_environ, cmds, ltrace,
                nruns, nc_files >>

vars == << prog, gd_vars, lead_vars, ret >>

app_path == "/met/bin/grid_diag"

NoEnv == [DATA_FILE_TYPE |-> "", DATA_FIELD |-> "", REGRID_DICT |-> "",
          DESC |-> "", VERIF_MASK |-> ""]

\* GridDiagWrapper.create_c_dict, lines 35-93
create_c_dict(templates, customs) ==
    [VERBOSITY |-> "2",
     CONFIG_FILE |-> "/conf/GridDiagConfig",
     INPUT_TEMPLATES |-> templates,
     INPUT_TEMPLATE |-> "",
     CUSTOM_LOOP_LIST |-> customs,
     ALL_FILES |-> <<>>,
     DATA_FILE_TYPE |-> "",
     DATA_FIELD |-> "",
     REGRID_TO_GRID |-> "", REGRID_METHOD |-> "", REGRID_WIDTH |-> "",
     REGRID_VLD_THRESH |-> "", REGRID_SHAPE |-> "",
     DESC |-> "",
     VERIFICATION_MASK_TEMPLATE |-> "/mask/poly",
     VERIFICATION_MASK |-> ""]

\* The wrapper as constructed, for the given configuration.
GridDiagConstructed(dsk, templates, customs) ==
    /\ disk = dsk
    /\ c_dict = create_c_dict(templates, customs)
    /\ time_info = [init |-> Star, valid |-> Star, lead |-> Star, custom |-> ""]
    /\ custom_idx = 0
    /\ pc = "get_all_files"
    /\ infiles = <<>>
    /\ args = <<>>
    /\ outfile = ""
    /\ env = NoEnv
    /\ list_files = << >>
    /\ errors = 0
    /\ picked = <<>>
    /\ wl_call = <<>>
    /\ field_call = <<>>
    /\ steps = <<>>
    /\ results = <<>>

\* The script before analysis_by_lead_time is entered, for the given
\* configuration, tile directory and file permissions.
LeadConfigured(range, tree, ro, series_filter_opts, filtered) ==
    /\ opt = [FHR_BEG |-> range.FHR_BEG, FHR_END |-> range.FHR_END,
              FHR_INC |-> range.FHR_INC, VAR_LIST |-> VarList,
              STAT_LIST |-> "[\"TOTAL\", \"FBAR\"]",
              FCST_TILE_REGEX |-> TileRegex("FCST"),
              ANLY_TILE_REGEX |-> TileRegex("ANLY"),
              REGRID_USING_MET_TOOL |-> FALSE,
              SERIES_ANALYSIS_FILTER_OPTS |-> series_filter_opts]
    /\ tile_tree = tree
    /\ filtered_tree = filtered
    /\ tile_dir = extract_tiles_dir
    /\ roots = <<>>
    /\ readonly = ro
    /\ ascii_files = << >>
    /\ fhr_pos = 0
    /\ lpc = "start"
    /\ fcst_tiles = ""
    /\ anly_tiles = ""
    /\ var_pos = 0
    /\ os_environ = [STAT_LIST |-> "", NAME |-> "", LEVEL |-> ""]
    /\ cmds = <<>>
    /\ ltrace = <<>>
    /\ nruns = 0
    /\ nc_files = {}

\* The script without filter options and with an empty filtered
\* directory.
LeadConstructed(range, tree, ro) == LeadConfigured(range, tree, ro, "", <<>>)

Init ==
    /\ ret = None
    /\ \/ /\ prog = "grid_diag"
          /\ \E dsk \in Disks, templates \in TemplateLists,
                customs \in CustomLists :
                 GridDiagConstructed(dsk, templates, customs)
          /\ LeadConstructed([FHR_BEG |-> 0, FHR_END |-> 0, FHR_INC |-> 1],
                             <<>>, {})
       \/ /\ prog = "series_by_lead"
          /\ \E range \in HourRanges, tree \in Trees, ro \in ReadOnlySets,
                series_filter_opts \in FilterOpts :
             \E filtered \in {<<>>, [k \in 1..Len(tree) |-> Refiled(tree[k])]} :
                 LeadConfigured(range, tree, ro, series_filter_opts, filtered)
          /\ GridDiagConstructed(<<>>, <<"fcst">>, <<"">>)

\* ---------------------------------------------------- catalog building
\* One pass of the loop of RuntimeFreqWrapper.get_all_files: the files of
\* one time are looked up by get_files_from_time and appended to the
\* catalog.  find_input_files leaves the last template in INPUT_TEMPLATE.
GetFilesFromTime ==
    /\ prog = "grid_diag" /\ pc = "get_all_files"
    /\ Len(c_dict.ALL_FILES) < MaxCatalog
    /\ \E t \in FileTimes :
          c_dict' = [c_dict EXCEPT
              !.ALL_FILES = Append(@, get_files_from_time(disk,
                                          c_dict.INPUT_TEMPLATES, t)),
              !.INPUT_TEMPLATE =
                  c_dict.INPUT_TEMPLATES[Len(c_dict.INPUT_TEMPLATES)]]
    /\ UNCHANGED << lead_vars, ret >>
    /\ UNCHANGED << prog, disk, time_info, custom_idx, pc, infiles, args,
                    outfile, env, list_files, errors, picked, wl_call,
                    field_call,
                    steps, results >>

\* run_at_time_once(time_info) is called with the catalog built.
RunAtTimeOnce ==
    /\ prog = "grid_diag" /\ pc = "get_all_files"
    /\ \E t \in TimeInfos :
          time_info' = [init |-> t.init, valid |-> t.valid, lead |-> t.lead,
                        custom |-> ""]
    /\ custom_idx' = 1
    /\ pc' = "for_custom"
    /\ results' = <<>>
    /\ UNCHANGED << lead_vars, ret >>
    /\ UNCHANGED << prog, disk, c_dict, infiles, args, outfile, env,
                    list_files, errors, picked, wl_call,
                    field_call, steps >>

\* The loop head of run_at_time_once, lines 161-166.  A new runtime
\* starts with nothing observed of it yet (steps, picked, wl_call,
\* field_call).
ForCustom ==
    /\ prog = "grid_diag" /\ pc = "for_custom"
    /\ IF custom_idx <= Len(c_dict.CUSTOM_LOOP_LIST)
       THEN /\ time_info' = [time_info EXCEPT
                                !.custom = c_dict.CUSTOM_LOOP_LIST[custom_idx]]
            /\ pc' = "clear"
            /\ steps' = <<>>
            /\ picked' = <<>>
            /\ wl_call' = <<>>
            /\ field_call' = <<>>
       ELSE /\ pc' = "finished"
            /\ UNCHANGED << time_info, steps, picked, wl_call, field_call >>
    /\ UNCHANGED << lead_vars, ret >>
    /\ UNCHANGED << prog, disk, c_dict, custom_idx, infiles, args, outfile,
                    env, list_files, errors, results >>

\* What a runtime that ends leaves in results: its custom string, how it
\* ended, the command it ran and the error count at its end.
Outcome(kind, cmd, errs) ==
    [custom |-> time_info.custom, outcome |-> kind, cmd |-> cmd,
     errors |-> errs]

\* Statement step of run_at_time_custom returned ok: move on, and when
\* run_at_time_custom returns, record the runtime and go to the next
\* custom string.
Advance(step, ok, kind, cmd, errs) ==
    /\ pc' = next_step(step, ok)
    /\ steps' = Append(steps, [step |-> step, ok |-> ok])
    /\ IF next_step(step, ok) = "for_custom"
       THEN /\ custom_idx' = custom_idx + 1
            /\ results' = Append(results, Outcome(kind, cmd, errs))
       ELSE UNCHANGED << custom_idx, results >>

\* self.clear() that leaves infiles and args as the runtime before left
\* them.
Clear_keeps_infiles ==
    /\ prog = "grid_diag" /\ pc = "clear"
    /\ outfile' = ""
    /\ pc' = next_step("clear", TRUE)
    /\ steps' = Append(steps, [step |-> "clear", ok |-> TRUE])
    /\ UNCHANGED << lead_vars, ret >>
    /\ UNCHANGED << prog, disk, c_dict, time_info, custom_idx, env, infiles,
                    args, list_files, errors, picked, wl_call,
                    field_call, results >>

\* self.clear(), line 169
Clear ==
    /\ prog = "grid_diag" /\ pc = "clear"
    /\ infiles' = <<>>
    /\ args' = <<>>
    /\ outfile' = ""
    /\ pc' = next_step("clear", TRUE)
    /\ steps' = Append(steps, [step |-> "clear", ok |-> TRUE])
    /\ UNCHANGED << lead_vars, ret >>
    /\ UNCHANGED << prog, disk, c_dict, time_info, custom_idx, env,
                    list_files, errors, picked, wl_call,
                    field_call, results >>

\* lines 172-176
SubsetInputFiles ==
    /\ prog = "grid_diag" /\ pc = "subset_input_files"
    /\ LET r == subset_input_files(c_dict.ALL_FILES, time_info, list_files)
       IN /\ list_files' = r.fs
          /\ picked' = r.picked
          /\ wl_call' = r.call
          /\ infiles' = IF Falsy(r.ret) THEN infiles ELSE Append(infiles, r.ret)
          /\ Advance("subset_input_files", ~Falsy(r.ret), "skipped", "", errors)
    /\ UNCHANGED << lead_vars, ret >>
    /\ UNCHANGED << prog, disk, c_dict, time_info, args, outfile, env, errors,
                    field_call >>

\* lines 179-180: the output path is found, or the runtime is skipped
\* (the output exists and is not to be overwritten).
FindAndCheckOutputFile ==
    /\ prog = "grid_diag" /\ pc = "find_and_check_output_file"
    /\ \E ok \in BOOLEAN :
          /\ outfile' = IF ok THEN "/out/grid_diag.nc" ELSE outfile
          /\ Advance("find_and_check_output_file", ok, "skipped", "", errors)
    /\ UNCHANGED << lead_vars, ret >>
    /\ UNCHANGED << prog, disk, c_dict, time_info, infiles, args, env,
                    list_files, errors, picked, wl_call,
                    field_call >>

\* lines 183-184
SetDataField ==
    /\ prog = "grid_diag" /\ pc = "set_data_field"
    /\ \E field_list \in FieldLists :
       \E bad \in SUBSET {field_list[k] : k \in 1..Len(field_list)} :
          LET r == set_data_field(field_list, bad, c_dict)
          IN /\ c_dict' = [c_dict EXCEPT !.DATA_FIELD = r.data_field]
             /\ field_call' = << [field_list |-> field_list, bad |-> bad] >>
             /\ errors' = errors + r.logged
             /\ Advance("set_data_field", r.ret, "skipped", "",
                        errors + r.logged)
    /\ UNCHANGED << lead_vars, ret >>
    /\ UNCHANGED << prog, disk, time_info, infiles, args, outfile, env,
                    list_files, picked, wl_call >>

\* line 187
GetVerificationMask ==
    /\ prog = "grid_diag" /\ pc = "get_verification_mask"
    /\ c_dict' = [c_dict EXCEPT !.VERIFICATION_MASK =
                     do_string_sub(c_dict.VERIFICATION_MASK_TEMPLATE, time_info)]
    /\ Advance("get_verification_mask", TRUE, "skipped", "", errors)
    /\ UNCHANGED << lead_vars, ret >>
    /\ UNCHANGED << prog, disk, time_info, infiles, args, outfile, env,
                    list_files, errors, picked, wl_call,
                    field_call >>

\* line 190; set_command_line_arguments, lines 253-255
SetCommandLineArguments ==
    /\ prog = "grid_diag" /\ pc = "set_command_line_arguments"
    /\ args' = Append(args, "-config "
                              \o do_string_sub(c_dict.CONFIG_FILE, time_info))
    /\ Advance("set_command_line_arguments", TRUE, "skipped", "", errors)
    /\ UNCHANGED << lead_vars, ret >>
    /\ UNCHANGED << prog, disk, c_dict, time_info, infiles, outfile, env,
                    list_files, errors, picked, wl_call,
                    field_call >>

\* line 193
SetEnvironmentVariables ==
    /\ prog = "grid_diag" /\ pc = "set_environment_variables"
    /\ env' = set_environment_variables(c_dict)
    /\ Advance("set_environment_variables", TRUE, "skipped", "", errors)
    /\ UNCHANGED << lead_vars, ret >>
    /\ UNCHANGED << prog, disk, c_dict, time_info, infiles, args, outfile,
                    list_files, errors, picked, wl_call,
                    field_call >>

\* line 196: CommandBuilder.build runs the command of get_command; a
\* non-zero exit status is logged as an error.
Build ==
    /\ prog = "grid_diag" /\ pc = "build"
    /\ \E rc \in {0, 1} :
          /\ errors' = IF rc = 0 THEN errors ELSE errors + 1
          /\ Advance("build", rc = 0,
                     IF rc = 0 THEN "succeeded" ELSE "failed",
                     get_command(app_path, infiles, args, outfile,
                                 c_dict.VERBOSITY),
                     IF rc = 0 THEN errors ELSE errors + 1)
    /\ UNCHANGED << lead_vars, ret >>
    /\ UNCHANGED << prog, disk, c_dict, time_info, infiles, args, outfile,
                    env, list_files, picked, wl_call,
                    field_call >>

\* ------------------------------------------------ analysis_by_lead_time
Hours == fhr_range(opt.FHR_BEG, opt.FHR_END, opt.FHR_INC)

\* The forecast hour of the current pass of the loop.
fhr == Hours[fhr_pos]

Event(ev) == [fhr |-> fhr, ev |-> ev]

\* os.walk(dir) for the two directories tiles are looked for in.
files_below(dir) ==
    IF dir = series_lead_filtered_out_dir THEN filtered_tree ELSE tile_tree

\* lines 38-141: the parameters are read, STAT_LIST is exported, the
\* filter is applied when there are filter options and tile_dir is set.
LeadStart ==
    /\ prog = "series_by_lead" /\ lpc = "start"
    /\ nruns < MaxRuns
    /\ nruns' = nruns + 1
    /\ os_environ' = [os_environ EXCEPT !.STAT_LIST = opt.STAT_LIST]
    /\ fhr_pos' = 0
    /\ cmds' = <<>>
    /\ ltrace' = <<>>
    /\ lpc' = "for_fhr"
    /\ \E added \in FilterResults(tile_tree) :
          LET filtered == IF opt.SERIES_ANALYSIS_FILTER_OPTS = "" \/ added = <<>>
                          THEN filtered_tree ELSE added
          IN /\ filtered_tree' = filtered
             /\ tile_dir' = choose_tile_dir(opt.SERIES_ANALYSIS_FILTER_OPTS,
                                            filtered)
    /\ roots' = <<>>
    /\ UNCHANGED << opt, tile_tree, readonly, ascii_files, fcst_tiles,
                    anly_tiles, var_pos >>
    /\ UNCHANGED << prog, gd_vars, ret, nc_files >>

\* The loop head of line 146, and lines 147-157 of the next pass.
ForFhr ==
    /\ prog = "series_by_lead" /\ lpc = "for_fhr"
    /\ IF fhr_pos < Len(Hours)
       THEN /\ fhr_pos' = fhr_pos + 1
            /\ lpc' = "fcst_tiles"
       ELSE /\ lpc' = "done"
            /\ UNCHANGED fhr_pos
    /\ UNCHANGED << opt, tile_tree, readonly, ascii_files, fcst_tiles,
                    anly_tiles, var_pos, os_environ, cmds, ltrace, nruns >>
    /\ UNCHANGED << prog, gd_vars, ret, nc_files, filtered_tree, tile_dir, roots >>

\* lines 161-164
FcstTiles ==
    /\ prog = "series_by_lead" /\ lpc = "fcst_tiles"
    /\ fcst_tiles' = retrieve_fhr_tiles(
                        get_anly_fcst_files(files_below(tile_dir), "FCST",
                            opt.FCST_TILE_REGEX, cur_fhr_of(fhr)),
                        opt.FCST_TILE_REGEX)
    /\ ltrace' = Append(ltrace, Event("fcst_tiles"))
    /\ roots' = Append(roots, [fhr |-> fhr, type |-> "FCST", root |-> tile_dir])
    /\ lpc' = "fcst_ascii"
    /\ UNCHANGED << opt, tile_tree, readonly, ascii_files, fhr_pos,
                    anly_tiles, var_pos, os_environ, cmds, nruns >>
    /\ UNCHANGED << prog, gd_vars, ret, nc_files, filtered_tree, tile_dir >>

\* lines 167-185: the IOError of open is caught and logged.
FcstAscii ==
    /\ prog = "series_by_lead" /\ lpc = "fcst_ascii"
    /\ IF Len(fcst_tiles) = 0
       THEN UNCHANGED << ascii_files, ltrace >>
       ELSE IF ascii_fcst_file_of(fhr) \in readonly
       THEN /\ ltrace' = Append(ltrace, Event("fcst_ioerror"))
            /\ UNCHANGED ascii_files
       ELSE /\ ascii_files' = append_file(ascii_files, ascii_fcst_file_of(fhr),
                                          fcst_tiles)
            /\ ltrace' = Append(ltrace, Event("fcst_written"))
    /\ lpc' = after_ascii("FCST", Len(fcst_tiles) = 0)
    /\ UNCHANGED << opt, tile_tree, readonly, fhr_pos, fcst_tiles,
                    anly_tiles, var_pos, os_environ, cmds, nruns >>
    /\ UNCHANGED << prog, gd_vars, ret, nc_files, filtered_tree, tile_dir, roots >>

\* lines 189-192
AnlyTiles ==
    /\ prog = "series_by_lead" /\ lpc = "anly_tiles"
    /\ anly_tiles' = retrieve_fhr_tiles(
                        get_anly_fcst_files(files_below(tile_dir), "ANLY",
                            opt.ANLY_TILE_REGEX, cur_fhr_of(fhr)),
                        opt.ANLY_TILE_REGEX)
    /\ ltrace' = Append(ltrace, Event("anly_tiles"))
    /\ roots' = Append(roots, [fhr |-> fhr, type |-> "ANLY", root |-> tile_dir])
    /\ lpc' = "anly_ascii"
    /\ UNCHANGED << opt, tile_tree, readonly, ascii_files, fhr_pos,
                    fcst_tiles, var_pos, os_environ, cmds, nruns >>
    /\ UNCHANGED << prog, gd_vars, ret, nc_files, filtered_tree, tile_dir >>

\* lines 196-226: the IOError of open is caught and logged; then the
\* loop over var_list is entered.
AnlyAscii ==
    /\ prog = "series_by_lead" /\ lpc = "anly_ascii"
    /\ IF Len(anly_tiles) = 0
       THEN UNCHANGED << ascii_files, ltrace >>
       ELSE IF ascii_anly_file_of(fhr) \in readonly
       THEN /\ ltrace' = Append(ltrace, Event("anly_ioerror"))
            /\ UNCHANGED ascii_files
       ELSE /\ ascii_files' = append_file(ascii_files, ascii_anly_file_of(fhr),
                                          anly_tiles)
            /\ ltrace' = Append(ltrace, Event("anly_written"))
    /\ lpc' = after_ascii("ANLY", Len(anly_tiles) = 0)
    /\ var_pos' = 0
    /\ UNCHANGED << opt, tile_tree, readonly, fhr_pos, fcst_tiles,
                    anly_tiles, os_environ, cmds, nruns >>
    /\ UNCHANGED << prog, gd_vars, ret, nc_files, filtered_tree, tile_dir, roots >>

\* The loop head of line 230.
ForVar ==
    /\ prog = "series_by_lead" /\ lpc = "for_var"
    /\ IF var_pos < Len(opt.VAR_LIST)
       THEN /\ var_pos' = var_pos + 1
            /\ lpc' = "series_analysis"
       ELSE /\ lpc' = "for_fhr"
            /\ UNCHANGED var_pos
    /\ UNCHANGED << opt, tile_tree, readonly, ascii_files, fhr_pos,
                    fcst_tiles, anly_tiles, os_environ, cmds, ltrace, nruns >>
    /\ UNCHANGED << prog, gd_vars, ret, nc_files, filtered_tree, tile_dir, roots >>

\* lines 234-263: NAME and LEVEL are exported, the command is built and
\* run with subprocess.check_output.
SeriesAnalysis ==
    /\ prog = "series_by_lead" /\ lpc = "series_analysis"
    /\ LET cur_var == opt.VAR_LIST[var_pos]
           environ == [os_environ EXCEPT
                          !.NAME = IF opt.REGRID_USING_MET_TOOL
                                   THEN cur_var.name \o "_" \o cur_var.level
                                   ELSE cur_var.name,
                          !.LEVEL = cur_var.level]
       IN /\ os_environ' = environ
          /\ \E rc \in {0, 1} :
                /\ cmds' = Append(cmds,
                              [fhr |-> fhr, var |-> var_pos,
                               cmd |-> series_analysis_cmd(fhr, cur_var),
                               environ |-> environ, rc |-> rc])
                /\ lpc' = after_check_output(rc)
                /\ nc_files' = IF rc = 0
                               THEN nc_files \cup {series_analysis_out(fhr, cur_var)}
                               ELSE nc_files
          /\ ltrace' = ltrace \o << Event("command_built"), Event("executed") >>
    /\ UNCHANGED << opt, tile_tree, readonly, ascii_files, fhr_pos,
                    fcst_tiles, anly_tiles, var_pos, nruns >>
    /\ UNCHANGED << prog, gd_vars, ret, filtered_tree, tile_dir, roots >>

\* lines 284-297, after the loop over the forecast hours: the netCDF
\* files below the output directory are listed, and without any the
\* script ends with sys.exit(1); otherwise the plots are made.
RetrieveNcFiles ==
    /\ prog = "series_by_lead" /\ lpc = "done"
    /\ lpc' = after_retrieve_nc_files(retrieve_nc_files(nc_files))
    /\ UNCHANGED << opt, tile_tree, readonly, ascii_files, fhr_pos,
                    fcst_tiles, anly_tiles, var_pos, os_environ, cmds, ltrace,
                    nruns >>
    /\ UNCHANGED << prog, gd_vars, ret, nc_files, filtered_tree, tile_dir, roots >>

\* The script is run again on the same directories.
LeadRerun ==
    /\ prog = "series_by_lead" /\ lpc \in {"plots", "exit_1", "raised"}
    /\ nruns < MaxRuns
    /\ lpc' = "start"
    /\ UNCHANGED << opt, tile_tree, readonly, ascii_files, fhr_pos,
                    fcst_tiles, anly_tiles, var_pos, os_environ, cmds, ltrace,
                    nruns >>
    /\ UNCHANGED << prog, gd_vars, ret, nc_files, filtered_tree, tile_dir, roots >>

Next ==
    \/ GetFilesFromTime
    \/ RunAtTimeOnce
    \/ ForCustom
    \/ Clear
    \/ SubsetInputFiles
    \/ FindAndCheckOutputFile
    \/ SetDataField
    \/ GetVerificationMask
    \/ SetCommandLineArguments
    \/ SetEnvironmentVariables
    \/ Build
    \/ LeadStart
    \/ ForFhr
    \/ FcstTiles
    \/ FcstAscii
    \/ AnlyTiles
    \/ AnlyAscii
    \/ ForVar
    \/ SeriesAnalysis
    \/ RetrieveNcFiles
    \/ LeadRerun

Spec == Init /\ [][Next]_vars

\* --------------------------------------------- get_list_file_name alone
\* The static method get_list_file_name takes any time_info dictionary:
\* every axis is the wildcard or a value, whatever the other axes are.
AxisTimes ==
    [init : {Star} \cup InitHours,
     valid : {Star} \cup {i + l : i \in InitHours, l \in LeadHours},
     lead : {Star} \cup LeadHours,
     custom : {"", "a", "b"}]

InitListFileName ==
    /\ prog = "get_list_file_name"
    /\ time_info \in AxisTimes
    /\ ret = None
    /\ disk = <<>>
    /\ c_dict = create_c_dict(<<"fcst">>, <<"">>)
    /\ custom_idx = 0
    /\ pc = "get_all_files"
    /\ infiles = <<>>
    /\ args = <<>>
    /\ outfile = ""
    /\ env = NoEnv
    /\ list_files = << >>
    /\ errors = 0
    /\ picked = <<>>
    /\ wl_call = <<>>
    /\ field_call = <<>>
    /\ steps = <<>>
    /\ results = <<>>
    /\ LeadConstructed([FHR_BEG |-> 0, FHR_END |-> 0, FHR_INC |-> 1], <<>>, {})

\* GridDiagWrapper.get_list_file_name(time_info) is called.
GetListFileName ==
    /\ prog = "get_list_file_name" /\ ret = None
    /\ ret' = get_list_file_name(time_info)
    /\ UNCHANGED << prog, gd_vars, lead_vars >>

NextListFileName == GetListFileName

SpecListFileName == InitListFileName /\ [][NextListFileName]_vars

\* ---------------------------------------------------- get_command alone
\* The wrapper in a given state, nothing of series_by_lead started.
WrapperState(dsk, cd, ti, inf, ar, out) ==
    /\ disk = dsk
    /\ c_dict = cd
    /\ time_info = ti
    /\ infiles = inf
    /\ args = ar
    /\ outfile = out
    /\ custom_idx = 0
    /\ pc = "get_all_files"
    /\ env = NoEnv
    /\ list_files = << >>
    /\ errors = 0
    /\ picked = <<>>
    /\ wl_call = <<>>
    /\ field_call = <<>>
    /\ steps = <<>>
    /\ results = <<>>
    /\ LeadConstructed([FHR_BEG |-> 0, FHR_END |-> 0, FHR_INC |-> 1], <<>>, {})

AllWild == [init |-> Star, valid |-> Star, lead |-> Star, custom |-> ""]

\* The sequences of at most two elements of S.
SeqsUpTo2(S) ==
    {<<>>} \cup {<<a>> : a \in S} \cup {<<a, b>> : a, b \in S}

\* get_command reads infiles, args, the output path and VERBOSITY.
InitGetCommand ==
    /\ prog = "get_command"
    /\ ret = <<>>
    /\ \E inf \in SeqsUpTo2({"/stage/file_lists/a.txt", "/stage/file_lists/b.txt"}),
          ar \in SeqsUpTo2({"-config /conf/GridDiagConfig", "-config /conf/b"}),
          out \in {"/out/grid_diag.nc", "/out/b.nc"},
          verbosity \in {"2", "3"} :
          WrapperState(<<>>,
              [create_c_dict(<<"fcst">>, <<"">>) EXCEPT !.VERBOSITY = verbosity],
              AllWild, inf, ar, out)

\* GetCommand where the arguments are used up by the call.
GetCommand_clears_args ==
    /\ prog = "get_command" /\ Len(ret) < MaxCalls
    /\ ret' = Append(ret, get_command(app_path, infiles, args, outfile,
                                      c_dict.VERBOSITY))
    /\ args' = <<>>
    /\ UNCHANGED << prog, lead_vars >>
    /\ UNCHANGED << disk, c_dict, time_info, custom_idx, pc, infiles, outfile,
                    env, list_files, errors, picked, wl_call,
                    field_call, steps, results >>

\* get_command() is called; ret collects what the calls returned.
GetCommand ==
    /\ prog = "get_command" /\ Len(ret) < MaxCalls
    /\ ret' = Append(ret, get_command(app_path, infiles, args, outfile,
                                      c_dict.VERBOSITY))
    /\ UNCHANGED << prog, gd_vars, lead_vars >>

NextGetCommand == GetCommand

SpecGetCommand == InitGetCommand /\ [][NextGetCommand]_vars

\* ------------------------------------------------------ discovery alone
\* The full paths of a list of files.
Paths(files) == [k \in 1..Len(files) |-> FilePath(files[k])]

InitDiscovery ==
    /\ ret = <<>>
    /\ \/ /\ prog = "get_anly_fcst_files"
          /\ GridDiagConstructed(<<>>, <<"fcst">>, <<"">>)
          /\ \E tree \in Trees :
                 LeadConstructed([FHR_BEG |-> 0, FHR_END |-> 0, FHR_INC |-> 1],
                                 tree, {})
       \/ /\ prog = "find_input_files"
          /\ \E dsk \in Disks, templates \in TemplateLists :
                 GridDiagConstructed(dsk, templates, <<"">>)
          /\ LeadConstructed([FHR_BEG |-> 0, FHR_END |-> 0, FHR_INC |-> 1],
                             <<>>, {})

\* get_anly_fcst_files that takes the files it finds out of the tree.
GetAnlyFcstFiles_moves_files ==
    /\ prog = "get_anly_fcst_files" /\ Len(ret) < MaxCalls
    /\ \E type \in {"FCST", "ANLY"}, h \in {0, 6, 12} :
         LET found == get_anly_fcst_files(tile_tree, type, TileRegex(type),
                                          cur_fhr_of(h))
         IN /\ ret' = Append(ret, [type |-> type, cur_fhr |-> cur_fhr_of(h),
                                   files |-> Paths(found)])
            /\ tile_tree' = SelectSeq(tile_tree,
                                LAMBDA f : \A k \in 1..Len(found) : found[k] # f)
    /\ UNCHANGED << prog, gd_vars >>
    /\ UNCHANGED << opt, readonly, ascii_files, fhr_pos, lpc, fcst_tiles,
                    anly_tiles, var_pos, os_environ, cmds, ltrace, nruns,
                    nc_files, filtered_tree, tile_dir, roots >>

\* get_anly_fcst_files(tile_dir, type, regex, cur_fhr) is called as lines
\* 161 and 189 call it; ret collects the calls and what they returned.
GetAnlyFcstFiles ==
    /\ prog = "get_anly_fcst_files" /\ Len(ret) < MaxCalls
    /\ \E type \in {"FCST", "ANLY"}, h \in {0, 6, 12} :
          ret' = Append(ret,
                    [type |-> type, cur_fhr |-> cur_fhr_of(h),
                     files |-> Paths(get_anly_fcst_files(tile_tree, type,
                                         TileRegex(type), cur_fhr_of(h)))])
    /\ UNCHANGED << prog, gd_vars, lead_vars >>

\* find_input_files(time_info) is called; line 238 leaves the last
\* template in INPUT_TEMPLATE.
FindInputFiles ==
    /\ prog = "find_input_files" /\ Len(ret) < MaxCalls
    /\ \E t \in TimeInfos :
          ret' = Append(ret,
                    [time_info |-> t,
                     files |-> find_input_files(disk, c_dict.INPUT_TEMPLATES, t)])
    /\ c_dict' = [c_dict EXCEPT !.INPUT_TEMPLATE =
                      c_dict.INPUT_TEMPLATES[Len(c_dict.INPUT_TEMPLATES)]]
    /\ UNCHANGED << prog, lead_vars >>
    /\ UNCHANGED << disk, time_info, custom_idx, pc, infiles, args, outfile,
                    env, list_files, errors, picked, wl_call,
                    field_call, steps, results >>

NextDiscovery == GetAnlyFcstFiles \/ FindInputFiles

SpecDiscovery == InitDiscovery /\ [][NextDiscovery]_vars

\* -------------------------------------- set_environment_variables alone
\* c_dict as create_c_dict leaves it, lines 59-83: each REGRID_* item is
\* set to its formatted text or left out; VERIFICATION_MASK as
\* get_verification_mask leaves it.
RegridDicts ==
    [REGRID_TO_GRID : {"", "to_grid = FCST;"},
     REGRID_METHOD : {"", "method = NEAREST;"},
     REGRID_WIDTH : {"", "width = 1;"},
     REGRID_VLD_THRESH : {"", "vld_thresh = 0.5;"},
     REGRID_SHAPE : {"", "shape = SQUARE;"},
     VERIFICATION_MASK : {"", "/mask/poly"}]

InitEnvironment ==
    /\ prog = "set_environment_variables"
    /\ ret = <<>>
    /\ \E r \in RegridDicts :
          WrapperState(<<>>,
              [create_c_dict(<<"fcst">>, <<"">>) EXCEPT
                  !.REGRID_TO_GRID = r.REGRID_TO_GRID,
                  !.REGRID_METHOD = r.REGRID_METHOD,
                  !.REGRID_WIDTH = r.REGRID_WIDTH,
                  !.REGRID_VLD_THRESH = r.REGRID_VLD_THRESH,
                  !.REGRID_SHAPE = r.REGRID_SHAPE,
                  !.VERIFICATION_MASK = r.VERIFICATION_MASK],
              AllWild, <<>>, <<>>, "")

\* set_environment_variables(time_info) is called; ret collects the
\* environment each call leaves.
SetEnvironmentVariablesAlone ==
    /\ prog = "set_environment_variables" /\ Len(ret) < MaxCalls
    /\ env' = set_environment_variables(c_dict)
    /\ ret' = Append(ret, set_environment_variables(c_dict))
    /\ UNCHANGED << prog, lead_vars >>
    /\ UNCHANGED << disk, c_dict, time_info, custom_idx, pc, infiles, args,
                    outfile, list_files, errors, picked, wl_call,
                    field_call, steps,
                    results >>

NextEnvironment == SetEnvironmentVariablesAlone

SpecEnvironment == InitEnvironment /\ [][NextEnvironment]_vars

\* ------------------------------------------------ retrieve_fhr_tiles alone
\* The sequences of at most three elements of S.
SeqsUpTo3(S) ==
    SeqsUpTo2(S) \cup {<<a, b, c>> : a, b, c \in S}

\* Lists given as tile_list: full paths of files of any kind.
TileLists ==
    SeqsUpTo3({ TileFile("/tiles/d1", "FCST", "006", "grb2"),
                TileFile("/tiles/d2", "FCST", "006", "grb2"),
                TileFile("/tiles/d2", "ANLY", "006", "grb2"),
                TileFile("/tiles/d2", "FCST", "012", "nc") })

\* tile_tree holds the list that is given as tile_list.
InitRetrieve ==
    /\ prog = "retrieve_fhr_tiles"
    /\ ret = <<>>
    /\ GridDiagConstructed(<<>>, <<"fcst">>, <<"">>)
    /\ \E tile_list \in TileLists :
           LeadConstructed([FHR_BEG |-> 0, FHR_END |-> 0, FHR_INC |-> 1],
                           tile_list, {})

\* retrieve_fhr_tiles(tile_list, file_type, ..., type_regex, logger) is
\* called as lines 163 and 191 call it; ret collects the calls and what
\* they returned.
RetrieveFhrTiles ==
    /\ prog = "retrieve_fhr_tiles" /\ Len(ret) < MaxCalls
    /\ \E type \in {"FCST", "ANLY"} :
          ret' = Append(ret,
                    [type |-> type,
                     fhr_tiles |-> retrieve_fhr_tiles(tile_tree,
                                                      TileRegex(type))])
    /\ UNCHANGED << prog, gd_vars, lead_vars >>

NextRetrieve == RetrieveFhrTiles

SpecRetrieve == InitRetrieve /\ [][NextRetrieve]_vars

\* ------------------------------------------------ get_netcdf_min_max alone
\* The initial values of VMIN and VMAX, lines 564-565.
VMIN_INIT == 999999
VMAX_INIT == -999999

\* A netCDF file of the variable as get_netcdf_min_max sees it: whether
\* its path has the form .../series_F<hhh>/series_F<hhh>*nc (line 570),
\* and the values of the lines "min = <value>" of min.txt and
\* "max = <value>" of max.txt (none when the file cannot be opened or
\* holds no such line); the minimum of a file is not above its maximum.
NcValues == {-2, 3}

NcFiles ==
    LET values == {<<>>} \cup {<<v>> : v \in NcValues}
    IN { f \in [path_ok : {TRUE}, min : values, max : values] :
           (f.min # <<>> /\ f.max # <<>>) => f.min[1] <= f.max[1] }
       \cup { [path_ok |-> FALSE, min |-> <<>>, max |-> <<>>] }

\* lines 650-656 and 663-669: the lines of one text file are taken in.
RECURSIVE scan_min(_, _)
scan_min(values, VMIN) ==
    IF values = <<>> THEN VMIN
    ELSE scan_min(Tail(values), IF Head(values) < VMIN THEN Head(values) ELSE VMIN)

RECURSIVE scan_max(_, _)
scan_max(values, VMAX) ==
    IF values = <<>> THEN VMAX
    ELSE scan_max(Tail(values), IF Head(values) > VMAX THEN Head(values) ELSE VMAX)

\* The loop of get_netcdf_min_max, lines 567-673, over the files left;
\* a path of another form ends the script with sys.exit(1), lines 574-579.
RECURSIVE min_max_loop(_, _, _)
min_max_loop(nc_var_files, VMIN, VMAX) ==
    IF nc_var_files = <<>>
    THEN [returned |-> TRUE, VMIN |-> VMIN, VMAX |-> VMAX]
    ELSE LET cur_nc == Head(nc_var_files)
         IN IF ~cur_nc.path_ok
            THEN [returned |-> FALSE, VMIN |-> VMIN, VMAX |-> VMAX]
            ELSE min_max_loop(Tail(nc_var_files),
                              scan_min(cur_nc.min, VMIN),
                              scan_max(cur_nc.max, VMAX))

\* get_netcdf_min_max, lines 534-676
get_netcdf_min_max(nc_var_files) ==
    min_max_loop(nc_var_files, VMIN_INIT, VMAX_INIT)

InitMinMax ==
    /\ prog = "get_netcdf_min_max"
    /\ ret = <<>>
    /\ GridDiagConstructed(<<>>, <<"fcst">>, <<"">>)
    /\ LeadConstructed([FHR_BEG |-> 0, FHR_END |-> 0, FHR_INC |-> 1], <<>>, {})

\* get_netcdf_min_max(nc_var_files, cur_stat, p, logger) is called; ret
\* collects the calls and what they returned.
GetNetcdfMinMax ==
    /\ prog = "get_netcdf_min_max" /\ Len(ret) < MaxCalls
    /\ \E nc_var_files \in SeqsUpTo2(NcFiles) :
          LET r == get_netcdf_min_max(nc_var_files)
          IN ret' = Append(ret, [nc_var_files |-> nc_var_files,
                                 returned |-> r.returned,
                                 VMIN |-> r.VMIN, VMAX |-> r.VMAX])
    /\ UNCHANGED << prog, gd_vars, lead_vars >>

NextMinMax == GetNetcdfMinMax

SpecMinMax == InitMinMax /\ [][NextMinMax]_vars

\* ------------------------------------------------ cleanup_lead_ascii alone
\* A file below a directory <SERIES_LEAD_OUT_DIR>/series_F<fhr>: dir is ""
\* for the directory itself and the name of the directory below it
\* otherwise.
OutFile(dir, name) == [dir |-> dir, name |-> name]

\* re.match of FCST_ASCII_REGEX_LEAD and of ANLY_ASCII_REGEX_LEAD, lines
\* 942-943, for patterns ".*FCST_.*" and ".*ANLY_.*".
fcst_ascii_match(name) == name \in {"FCST_FILES_F", "FCST_ANLY_FILES_F"}
anly_ascii_match(name) == name \in {"ANLY_FILES_F", "FCST_ANLY_FILES_F"}

\* The files below one series_F<fhr> directory, in os.walk order (the
\* files of the directory itself come first).
CleanupTrees ==
    { <<>>,
      << OutFile("", "FCST_FILES_F"), OutFile("", "ANLY_FILES_F"),
         OutFile("", "series_F.nc") >>,
      << OutFile("", "FCST_ANLY_FILES_F") >>,
      << OutFile("", "FCST_FILES_F"), OutFile("sub", "FCST_FILES_F") >>,
      << OutFile("sub", "ANLY_FILES_F") >>,
      << OutFile("", "series_F.nc"), OutFile("sub", "series_F.nc") >> }

\* os.remove(os.path.join(out_dir, cur_file)), lines 944-948: top holds
\* the names of the files of out_dir itself; a path that names no file
\* raises OSError.
os_remove(name, top) ==
    IF name \in top THEN [raised |-> FALSE, top |-> top \ {name}]
    ELSE [raised |-> TRUE, top |-> top]

\* The loops of lines 940-948 over the files os.walk lists.
RECURSIVE cleanup_walk(_, _)
cleanup_walk(files, top) ==
    IF files = <<>> THEN [raised |-> FALSE, top |-> top]
    ELSE LET cur_file == Head(files).name
             r1 == IF fcst_ascii_match(cur_file) THEN os_remove(cur_file, top)
                   ELSE [raised |-> FALSE, top |-> top]
             r2 == IF anly_ascii_match(cur_file) THEN os_remove(cur_file, r1.top)
                   ELSE r1
         IN IF r1.raised THEN r1
            ELSE IF r2.raised THEN r2
            ELSE cleanup_walk(Tail(files), r2.top)

\* The loop of line 935 over the hours left: fs gives the files below
\* the directory of each hour; an OSError ends the function.
RECURSIVE cleanup_hours(_, _)
cleanup_hours(hours, fs) ==
    IF hours = <<>> THEN [raised |-> FALSE, fs |-> fs]
    ELSE LET h == Head(hours)
             top == {fs[h][k].name : k \in {n \in 1..Len(fs[h]) : fs[h][n].dir = ""}}
             r == cleanup_walk(fs[h], top)
             left == [fs EXCEPT ![h] =
                        SelectSeq(fs[h], LAMBDA f : f.dir # "" \/ f.name \in r.top)]
         IN IF r.raised THEN [raised |-> TRUE, fs |-> left]
            ELSE cleanup_hours(Tail(hours), left)

\* cleanup_lead_ascii, lines 907-948
cleanup_lead_ascii(range, fs) ==
    cleanup_hours(fhr_range(range.FHR_BEG, range.FHR_END, range.FHR_INC), fs)

InitCleanup ==
    /\ prog = "cleanup_lead_ascii"
    /\ ret = <<>>
    /\ GridDiagConstructed(<<>>, <<"fcst">>, <<"">>)
    /\ LeadConstructed([FHR_BEG |-> 0, FHR_END |-> 0, FHR_INC |-> 1], <<>>, {})

\* cleanup_lead_ascii(p, logger) is called on a tree of output
\* directories; ret collects the calls: the parameters, the files before
\* and after, and whether an exception ended the call.
CleanupLeadAscii ==
    /\ prog = "cleanup_lead_ascii" /\ Len(ret) < MaxCalls
    /\ \E range \in { [FHR_BEG |-> 0, FHR_END |-> 6, FHR_INC |-> 6],
                      [FHR_BEG |-> 6, FHR_END |-> 6, FHR_INC |-> 12] },
          t0 \in CleanupTrees, t6 \in CleanupTrees :
          LET fs == [h \in {0, 6} |-> IF h = 0 THEN t0 ELSE t6]
              r == cleanup_lead_ascii(range, fs)
          IN ret' = Append(ret, [range |-> range, before |-> fs,
                                 after |-> r.fs, raised |-> r.raised])
    /\ UNCHANGED << prog, gd_vars, lead_vars >>

NextCleanup == CleanupLeadAscii

SpecCleanup == InitCleanup /\ [][NextCleanup]_vars

\* =============================================================== claims
Last(seq) == seq[Len(seq)]

StepNames == [k \in 1..Len(steps) |-> steps[k].step]

InCustom == pc \in {CustomSteps[k] : k \in 1..Len(CustomSteps)}

\* The axis rule of the subsetter: either side is the wildcard, or both
\* are equal.
AxisMatches(a, b) == a = Star \/ b = Star \/ a = b

ContextMatches(t, u) ==
    /\ AxisMatches(t.init, u.init)
    /\ AxisMatches(t.valid, u.valid)
    /\ AxisMatches(t.lead, u.lead)

\* An hour as the three digits of a tile name.
ThreeDigits(h) ==
    IF h < 10 THEN "00" \o ToString(h)
    ELSE IF h < 100 THEN "0" \o ToString(h) ELSE ToString(h)

\* C1: the statements of run_at_time_custom run in the fixed source order
\* (clear, subset inputs, check output path, resolve fields, mask,
\* arguments, environment, build), each at most once; every statement run
\* before the last one returned success, so a failed statement ends the
\* runtime at once; and build is reached only with a list file in
\* infiles, an output path found and set_data_field returned True.
C1_StepOrder ==
    prog = "grid_diag" =>
      /\ StepNames = SubSeq(CustomSteps, 1, Len(steps))
      /\ \A k \in 1..(Len(steps) - 1) : steps[k].ok
      /\ InCustom =>
           /\ Len(steps) = StepIndex(pc) - 1
           /\ \A k \in 1..Len(steps) : steps[k].ok
      /\ (steps # <<>> /\ ~Last(steps).ok) => pc \in {"for_custom", "finished"}
      /\ pc = "build" =>
           /\ Len(infiles) = 1 /\ ~Falsy(infiles[1])
           /\ outfile # ""
           /\ \E k \in 1..Len(steps) :
                 steps[k] = [step |-> "set_data_field", ok |-> TRUE]

\* C1's case: a runtime that ran every statement up to build.
C1_Witness ==
    /\ prog = "grid_diag" /\ pc = "for_custom"
    /\ Len(steps) = Len(CustomSteps)
    /\ Last(steps).step = "build"

NoEntryMatches ==
    \A k \in 1..Len(c_dict.ALL_FILES) :
        ~ContextMatches(time_info, c_dict.ALL_FILES[k].time_info)

\* The files below the directory the tiles are looked for in.
SearchTree ==
    IF tile_dir = "/filtered" THEN filtered_tree ELSE tile_tree

NoFcstTiles(h) ==
    \A k \in 1..Len(SearchTree) :
        ~(SearchTree[k].kind = "FCST" /\ SearchTree[k].ext = "grb2"
          /\ SearchTree[k].hr = ThreeDigits(h))

\* C2: a runtime whose time context matches no catalog entry ends as
\* skipped: subset_input_files writes no list file, nothing is appended
\* to infiles or args, no error is logged, no command is run and
\* run_at_time_custom returns; in analysis_by_lead_time an hour without
\* matching forecast tiles writes nothing, runs no command and the loop
\* goes to the next hour.
C2_EmptySubsetSkipped ==
    [][ /\ (prog = "grid_diag" /\ pc = "subset_input_files" /\ NoEntryMatches) =>
            /\ pc' = "for_custom"
            /\ custom_idx' = custom_idx + 1
            /\ list_files' = list_files
            /\ wl_call' = <<>>
            /\ infiles' = <<>> /\ args' = <<>>
            /\ errors' = errors
            /\ results' = Append(results,
                   [custom |-> time_info.custom, outcome |-> "skipped",
                    cmd |-> "", errors |-> errors])
        /\ (prog = "series_by_lead" /\ lpc = "fcst_ascii" /\ NoFcstTiles(fhr)) =>
            /\ lpc' = "for_fhr"
            /\ ascii_files' = ascii_files
            /\ cmds' = cmds
        /\ \A k \in 1..Len(cmds') : ~NoFcstTiles(cmds'[k].fhr)
      ]_vars

\* C2's case: a catalog with entries none of which matches the runtime,
\* and the runtime has just ended in subset_input_files.
C2_Witness ==
    /\ prog = "grid_diag" /\ pc = "for_custom"
    /\ c_dict.ALL_FILES # <<>> /\ NoEntryMatches
    /\ steps # <<>> /\ Last(steps) = [step |-> "subset_input_files", ok |-> FALSE]
    /\ results # <<>> /\ Last(results).outcome = "skipped"

\* The forecast hours fhr_beg, fhr_beg + fhr_inc, ... not above fhr_end.
ExpectedHourSeq ==
    [k \in 1..(IF opt.FHR_BEG > opt.FHR_END THEN 0
               ELSE (opt.FHR_END - opt.FHR_BEG) \div opt.FHR_INC + 1) |->
        opt.FHR_BEG + (k - 1) * opt.FHR_INC]

HasEvent(h, ev) == \E k \in 1..Len(ltrace) : ltrace[k] = [fhr |-> h, ev |-> ev]

\* C3: a failed tool invocation does not end the batch: when the run of
\* analysis_by_lead_time is over, every forecast hour of the range has
\* been processed, and when run_at_time_once is over every custom string
\* has a recorded runtime, with one error recorded per failed runtime.
C3_FailureContained ==
    /\ (prog = "series_by_lead" /\ lpc \in {"done", "raised"}) =>
          \A n \in 1..Len(ExpectedHourSeq) :
              HasEvent(ExpectedHourSeq[n], "fcst_tiles")
    /\ (prog = "grid_diag" /\ pc = "finished") =>
          Len(results) = Len(c_dict.CUSTOM_LOOP_LIST)

\* C4: a manifest just written holds exactly the paths given to the
\* writer, in their order, and nothing from an earlier write.
C4_ManifestOverwritten ==
    /\ (prog = "series_by_lead" /\ ltrace # <<>>
          /\ Last(ltrace) = [fhr |-> fhr, ev |-> "fcst_written"]) =>
          ascii_files[ascii_fcst_file_of(fhr)] = fcst_tiles
    /\ (prog = "series_by_lead" /\ ltrace # <<>>
          /\ Last(ltrace) = [fhr |-> fhr, ev |-> "anly_written"]) =>
          ascii_files[ascii_anly_file_of(fhr)] = anly_tiles
    /\ (prog = "grid_diag" /\ wl_call # <<>>) =>
          list_files[list_file_path(wl_call[1].name)] = wl_call[1].files

\* C5: after the write of a manifest of a forecast hour failed with an
\* IOError, no command is built or executed for that hour.
C5_WriteErrorAbortsRuntime ==
    prog = "series_by_lead" =>
        \A i, j \in 1..Len(ltrace) :
            (/\ i < j
             /\ ltrace[i].ev \in {"fcst_ioerror", "anly_ioerror"}
             /\ ltrace[j].fhr = ltrace[i].fhr)
            => ltrace[j].ev \notin {"command_built", "executed"}

\* Discovery and manifest writing come before the commands of an hour.
Phase(ev) ==
    CASE ev = "fcst_tiles" -> 1
      [] ev \in {"fcst_written", "fcst_ioerror"} -> 2
      [] ev = "anly_tiles" -> 3
      [] ev \in {"anly_written", "anly_ioerror"} -> 4
      [] ev \in {"command_built", "executed"} -> 5

\* C6: the forecast hours are visited in ascending order, fhr_beg,
\* fhr_beg + fhr_inc, ... up to fhr_end inclusive, none left out; no step
\* of an hour follows a step of a later hour; within an hour discovery
\* and manifest writing precede every command, and each command is built
\* right before it is executed.  run_at_time_once takes the custom
\* strings in list order, one runtime after the other, and within a
\* runtime the statements keep their order (subsetting before the command
\* arguments before build).
C6_RuntimeOrder ==
    /\ prog = "series_by_lead" =>
        /\ fhr_pos <= Len(ExpectedHourSeq)
        /\ (fhr_pos >= 1 /\ lpc # "start") => fhr = ExpectedHourSeq[fhr_pos]
        /\ lpc = "done" => fhr_pos = Len(ExpectedHourSeq)
        /\ lpc \in {"for_fhr", "done"} =>
              \A n \in 1..fhr_pos : HasEvent(ExpectedHourSeq[n], "fcst_tiles")
        /\ \A i, j \in 1..Len(ltrace) :
              i < j =>
                /\ ltrace[i].fhr <= ltrace[j].fhr
                /\ ltrace[i].fhr = ltrace[j].fhr =>
                       Phase(ltrace[i].ev) <= Phase(ltrace[j].ev)
        /\ \A j \in 1..Len(ltrace) :
              ltrace[j].ev = "executed" =>
                 /\ j > 1
                 /\ ltrace[j - 1] = [fhr |-> ltrace[j].fhr, ev |-> "command_built"]
    /\ prog = "grid_diag" =>
        /\ Len(results) <= Len(c_dict.CUSTOM_LOOP_LIST)
        /\ \A k \in 1..Len(results) :
              results[k].custom = c_dict.CUSTOM_LOOP_LIST[k]
        /\ InCustom =>
              /\ custom_idx = Len(results) + 1
              /\ time_info.custom = c_dict.CUSTOM_LOOP_LIST[custom_idx]
        /\ pc = "finished" => Len(results) = Len(c_dict.CUSTOM_LOOP_LIST)
        /\ \A i, j \in 1..Len(steps) :
              i < j => StepIndex(steps[i].step) < StepIndex(steps[j].step)

\* C6's case: a finished run over three forecast hours that executed
\* commands for two different hours.
C6_Witness ==
    /\ prog = "series_by_lead" /\ lpc = "done"
    /\ Len(ExpectedHourSeq) = 3
    /\ \E a, b \in 1..Len(cmds) : cmds[a].fhr < cmds[b].fhr

SubsetDone ==
    /\ prog = "grid_diag"
    /\ \E k \in 1..Len(steps) : steps[k].step = "subset_input_files"

\* C7: subset_input_files takes the files of a catalog entry exactly when
\* each of init, valid and lead of the entry matches the runtime's
\* time_info, an axis matching when either side is the wildcard or both
\* are the same value.
C7_SubsetSelectsMatching ==
    SubsetDone =>
        \A k \in 1..Len(c_dict.ALL_FILES) :
            (\E n \in 1..Len(picked) : picked[n] = k)
            <=> ContextMatches(time_info, c_dict.ALL_FILES[k].time_info)

\* C7's case: two entries of the same init and different leads, both
\* taken for the runtime of that init with valid and lead wildcards.
C7_Witness ==
    /\ SubsetDone
    /\ Len(c_dict.ALL_FILES) = 2
    /\ c_dict.ALL_FILES[1].time_info = [init |-> 0, valid |-> 0, lead |-> 0]
    /\ c_dict.ALL_FILES[2].time_info = [init |-> 0, valid |-> 6, lead |-> 6]
    /\ time_info.init = 0 /\ time_info.valid = Star /\ time_info.lead = Star
    /\ picked = <<1, 2>>

\* The 'input' lists of the entries that compare_time_info accepts, one
\* after the other in catalog order.
MatchingInputs ==
    Flatten([k \in 1..Len(c_dict.ALL_FILES) |->
                IF compare_time_info(time_info, c_dict.ALL_FILES[k].time_info)
                THEN c_dict.ALL_FILES[k].input ELSE <<>>])

\* C8: the list given to write_list_file is the concatenation, in catalog
\* order, of the 'input' lists of the matching entries, each in its own
\* order, with nothing dropped, moved or deduplicated; with no matching
\* file the writer is not called.
C8_SubsetConcatenation ==
    SubsetDone =>
        IF MatchingInputs = <<>> THEN wl_call = <<>>
        ELSE /\ Len(wl_call) = 1
             /\ wl_call[1].files = MatchingInputs

\* C8's case: two matching entries that hold the same path, which is
\* written twice.
C8_Witness ==
    /\ SubsetDone /\ wl_call # <<>>
    /\ picked = <<1, 2>>
    /\ \E i \in 1..Len(c_dict.ALL_FILES[1].input) :
          \E j \in 1..Len(c_dict.ALL_FILES[2].input) :
             /\ c_dict.ALL_FILES[1].input[i] = c_dict.ALL_FILES[2].input[j]
             /\ wl_call[1].files[i] = wl_call[1].files[Len(c_dict.ALL_FILES[1].input) + j]
    /\ c_dict.ALL_FILES[1].input # c_dict.ALL_FILES[2].input

DateToken(x) ==
    CASE x = Star -> "ALL"
      [] x = 0 -> "20200101000000"
      [] x = 6 -> "20200101060000"
      [] x = 12 -> "20200101120000"

LeadToken(x) ==
    CASE x = Star -> "ALL"
      [] x = 0 -> "0"
      [] x = 6 -> "21600"

\* C10: get_list_file_name returns
\* grid_diag_files_init_<INIT>_valid_<VALID>_lead_<LEAD>.txt where an axis
\* is the text ALL exactly when it is the wildcard and its value (the
\* time as %Y%m%d%H%M%S, the lead in seconds) otherwise, for every
\* combination of wildcard and concrete axes; the name depends on nothing
\* but init, valid and lead.
C10_ListFileName ==
    (prog = "get_list_file_name" /\ ret # None) =>
        ret = "grid_diag_files_init_" \o DateToken(time_info.init)
                \o "_valid_" \o DateToken(time_info.valid)
                \o "_lead_" \o LeadToken(time_info.lead) \o ".txt"

\* C10's case: a concrete lead with a wildcard valid time.
C10_Witness ==
    /\ prog = "get_list_file_name"
    /\ time_info.init = 0 /\ time_info.valid = Star /\ time_info.lead = 6
    /\ ret = "grid_diag_files_init_20200101000000_valid_ALL_lead_21600.txt"

\* One " -data <infile>" for each input file, in order.
RECURSIVE DataArguments(_)
DataArguments(inf) ==
    IF inf = <<>> THEN ""
    ELSE " -data " \o Head(inf) \o DataArguments(Tail(inf))

\* The arguments in order with one blank between two of them.
RECURSIVE OtherArguments(_)
OtherArguments(ar) ==
    IF ar = <<>> THEN ""
    ELSE IF Len(ar) = 1 THEN ar[1]
    ELSE OtherArguments(SubSeq(ar, 1, Len(ar) - 1)) \o " " \o ar[Len(ar)]

\* C11: get_command returns the executable path, one " -data <infile>"
\* for each element of infiles in infiles order, then the elements of
\* args in order, then " -out <output path>" and last " -v <VERBOSITY>".
C11_CommandLayout ==
    prog = "get_command" =>
        \A k \in 1..Len(ret) :
            ret[k] = app_path \o DataArguments(infiles) \o " "
                       \o OtherArguments(args) \o " -out " \o outfile
                       \o " -v " \o c_dict.VERBOSITY

\* C11's case: two input files and two arguments.
C11_Witness ==
    /\ prog = "get_command" /\ Len(ret) >= 1
    /\ Len(infiles) = 2 /\ infiles[1] # infiles[2]
    /\ Len(args) = 2 /\ args[1] # args[2]

\* The tiles of a kind below tile_dir whose name matches the tile pattern
\* and names the hour h, in walk order.
ExpectedTiles(kind, h) ==
    SelectSeq(SearchTree,
              LAMBDA f : f.kind = kind /\ f.ext = "grb2" /\ f.hr = ThreeDigits(h))

\* The text of a manifest: each path followed by a newline.
RECURSIVE ManifestText(_)
ManifestText(tiles) ==
    IF tiles = <<>> THEN ""
    ELSE FilePath(Head(tiles)) \o "\n" \o ManifestText(Tail(tiles))

\* C12: the FCST and the ANLY manifest written for a forecast hour hold
\* exactly the paths of the tiles of that kind and hour, in discovery
\* order, and every series_analysis command of the hour names the two
\* manifests of the hour as "-fcst <FCST manifest> -obs <ANLY manifest>".
C12_ManifestContents ==
    prog = "series_by_lead" =>
        /\ \A k \in 1..Len(ltrace) :
              /\ ltrace[k].ev = "fcst_written" =>
                    ascii_files[ascii_fcst_file_of(ltrace[k].fhr)]
                        = ManifestText(ExpectedTiles("FCST", ltrace[k].fhr))
              /\ ltrace[k].ev = "anly_written" =>
                    ascii_files[ascii_anly_file_of(ltrace[k].fhr)]
                        = ManifestText(ExpectedTiles("ANLY", ltrace[k].fhr))
        /\ \A k \in 1..Len(cmds) :
              LET h == cmds[k].fhr
                  v == opt.VAR_LIST[cmds[k].var]
              IN cmds[k].cmd =
                    series_analysis_exe \o "  -v 4 "
                      \o "-fcst " \o series_lead_out_dir \o "/series_F"
                      \o ThreeDigits(h) \o "/FCST_FILES_F" \o ThreeDigits(h)
                      \o " -obs " \o series_lead_out_dir \o "/series_F"
                      \o ThreeDigits(h) \o "/ANLY_FILES_F" \o ThreeDigits(h)
                      \o " -config " \o series_anly_configuration_file
                      \o " -out " \o series_analysis_out(h, v)

\* C13: the environment of the process is never changed: the variables
\* of a tool invocation are given to that invocation only.
C13_EnvironmentNotLeaked == [][os_environ' = os_environ]_vars

\* C14: the script ends with a failure exit status only when the
\* series_analysis command of some forecast hour failed.
C14_ExitStatus ==
    (prog = "series_by_lead" /\ lpc = "exit_1") =>
        \E k \in 1..Len(cmds) : cmds[k].rc # 0

\* C15: when build is called, infiles holds the list file written for the
\* current runtime and nothing else, and args holds the -config argument
\* of the current runtime and nothing else, whatever the runtimes before
\* left behind.
C15_RuntimeIsolation ==
    (prog = "grid_diag" /\ pc = "build") =>
        /\ Len(wl_call) = 1
        /\ infiles = << "/stage/file_lists/" \o wl_call[1].name >>
        /\ args = << "-config " \o c_dict.CONFIG_FILE \o time_info.custom >>

\* C15's case: build is reached in the second runtime after the first
\* runtime was left with its list file already in infiles.
C15_Witness ==
    /\ prog = "grid_diag" /\ pc = "build"
    /\ Len(results) = 1 /\ results[1].outcome = "skipped"
    /\ time_info.custom = "b"

\* C19: once run_at_time_once has been called, the time_info dictionary
\* it was given keeps its init, valid, lead and custom values.
C19_TimeInfoUnchanged ==
    [][(prog = "grid_diag" /\ pc # "get_all_files") => time_info' = time_info]_vars

\* The arguments of a recorded discovery call.
CallArguments(call) ==
    IF prog = "get_anly_fcst_files" THEN <<call.type, call.cur_fhr>>
    ELSE <<call.time_info.init, call.time_info.valid, call.time_info.lead>>

C17_NonMatchingSkipped ==
    prog = "get_anly_fcst_files" =>
        \A k \in 1..Len(ret) :
            ret[k].files =
                Paths(SelectSeq(tile_tree,
                        LAMBDA f : /\ f.kind = ret[k].type
                                   /\ f.ext = "grb2"
                                   /\ f.hr = ret[k].cur_fhr))

\* C17's case: matches before and after files that are no match.
C17_Witness ==
    /\ prog = "get_anly_fcst_files" /\ Len(ret) >= 1
    /\ tile_tree = TreeFull
    /\ ret[1].type = "FCST" /\ ret[1].cur_fhr = "006"
    /\ ret[1].files = << "/tiles/d1/FCST_TILE_F006.grb2",
                         "/tiles/d2/FCST_TILE_F006.grb2" >>

RegridEntries ==
    SelectSeq(<< c_dict.REGRID_TO_GRID, c_dict.REGRID_METHOD,
                 c_dict.REGRID_WIDTH, c_dict.REGRID_VLD_THRESH,
                 c_dict.REGRID_SHAPE >>,
              LAMBDA e : e # "")

RECURSIVE Concat(_)
Concat(ss) == IF ss = <<>> THEN "" ELSE Head(ss) \o Concat(Tail(ss))

\* C20: REGRID_DICT is empty exactly when no REGRID_* item is set, and
\* otherwise "regrid = {" with the set items in the order to_grid, method,
\* width, vld_thresh, shape and "}"; VERIF_MASK is "poly = <mask>;" when
\* a verification mask is set and empty otherwise.
C20_RegridDict ==
    (prog = "set_environment_variables" /\ ret # <<>>) =>
        /\ env.REGRID_DICT = "" <=> RegridEntries = <<>>
        /\ RegridEntries # <<>> =>
              env.REGRID_DICT = "regrid = {" \o Concat(RegridEntries) \o "}"
        /\ env.VERIF_MASK =
              IF c_dict.VERIFICATION_MASK = "" THEN ""
              ELSE "poly = " \o c_dict.VERIFICATION_MASK \o ";"
        /\ \A k \in 1..Len(ret) : ret[k] = env

\* C20's case: only to_grid and width are set, and a mask.
C20_Witness ==
    /\ prog = "set_environment_variables" /\ ret # <<>>
    /\ env.REGRID_DICT = "regrid = {to_grid = FCST;width = 1;}"
    /\ env.VERIF_MASK = "poly = /mask/poly;"

\* C21: a runtime that ends before a command is built (no input files,
\* no output path, or no field information) ends as skipped and adds no
\* error to the error count of the run.
C21_SkipIsNotError ==
    [][(/\ prog = "grid_diag"
        /\ pc \in {"subset_input_files", "find_and_check_output_file",
                   "set_data_field"}
        /\ pc' = "for_custom")
       => /\ errors' = errors
          /\ Last(results').outcome = "skipped"
          /\ Last(results').errors = errors]_vars

\* Some template of INPUT_TEMPLATES finds no file for the time t.
SomeTemplateFindsNothing(t) ==
    \E k \in 1..Len(c_dict.INPUT_TEMPLATES) :
        find_data(disk, c_dict.INPUT_TEMPLATES[k], t) = <<>>

\* C22: find_input_files returns None when some template finds no file
\* and the list of all files otherwise, and then get_files_from_time adds
\* no entry with an 'input' list to the catalog.
C22_NoneWhenTemplateEmpty ==
    /\ prog = "find_input_files" =>
          \A k \in 1..Len(ret) :
              SomeTemplateFindsNothing(ret[k].time_info)
                  => ret[k].files = NoneList
    /\ prog = "grid_diag" =>
          \A n \in 1..Len(c_dict.ALL_FILES) :
              ~SomeTemplateFindsNothing(c_dict.ALL_FILES[n].time_info)

\* C23: retrieve_fhr_tiles returns the tiles of tile_list that match
\* type_regex, in list order, each followed by a newline; a tile that
\* does not match is left out and the matching tiles before and after it
\* are still returned.
C23_OnlyMatchingTiles ==
    prog = "retrieve_fhr_tiles" =>
        \A k \in 1..Len(ret) :
            ret[k].fhr_tiles =
                ManifestText(SelectSeq(tile_tree,
                    LAMBDA f : f.kind = ret[k].type /\ f.ext = "grb2"))

\* C24: an hour without forecast tiles writes or changes no manifest and
\* runs no command; an hour with forecast tiles and without analysis
\* tiles has its FCST manifest written, leaves the ANLY manifest alone and
\* runs no command; in both cases the loop goes on with the next hour; and
\* a command of an hour runs only after both manifests of the hour were
\* written in the same pass of the loop.
C24_SkippedHours ==
    /\ [](prog = "series_by_lead" =>
            \A k \in 1..Len(cmds) :
                /\ HasEvent(cmds[k].fhr, "fcst_written")
                /\ HasEvent(cmds[k].fhr, "anly_written")
                /\ ExpectedTiles("FCST", cmds[k].fhr) # <<>>
                /\ ExpectedTiles("ANLY", cmds[k].fhr) # <<>>)
    /\ [][/\ (/\ prog = "series_by_lead" /\ lpc = "fcst_ascii"
              /\ ExpectedTiles("FCST", fhr) = <<>>)
             => /\ lpc' = "for_fhr"
                /\ ascii_files' = ascii_files
                /\ cmds' = cmds
          /\ (/\ prog = "series_by_lead" /\ lpc = "anly_ascii"
              /\ ExpectedTiles("ANLY", fhr) = <<>>)
             => /\ lpc' = "for_fhr"
                /\ HasEvent(fhr, "fcst_written")
                /\ ascii_files' = ascii_files
                /\ cmds' = cmds]_vars

\* The run of analysis_by_lead_time is over.
LeadOver == prog = "series_by_lead" /\ lpc \in {"done", "plots", "exit_1", "raised"}

\* C25: for each forecast hour that is not skipped, series_analysis is
\* invoked exactly once for each entry of var_list, in var_list order,
\* with -out <out_dir>/series_F<fhr>_<name>_<level>.nc and the shared
\* -config file, and with LEVEL and NAME of the environment set to the
\* level and the name of that entry (NAME to <name>_<level> when
\* regridding with the MET tool) when the invocation starts.
C25_OnePerVariable ==
    prog = "series_by_lead" =>
        /\ \A k \in 1..Len(cmds) :
              LET h == cmds[k].fhr
                  v == opt.VAR_LIST[cmds[k].var]
                  dir == series_lead_out_dir \o "/series_F" \o ThreeDigits(h)
              IN /\ cmds[k].var =
                       IF k > 1 /\ cmds[k - 1].fhr = h
                       THEN cmds[k - 1].var + 1 ELSE 1
                 /\ cmds[k].cmd =
                       series_analysis_exe \o "  -v 4 -fcst " \o dir
                         \o "/FCST_FILES_F" \o ThreeDigits(h)
                         \o " -obs " \o dir \o "/ANLY_FILES_F" \o ThreeDigits(h)
                         \o " -config " \o series_anly_configuration_file
                         \o " -out " \o dir \o "/series_F" \o ThreeDigits(h)
                         \o "_" \o v.name \o "_" \o v.level \o ".nc"
                 /\ cmds[k].environ.LEVEL = v.level
                 /\ cmds[k].environ.NAME =
                       IF opt.REGRID_USING_MET_TOOL
                       THEN v.name \o "_" \o v.level ELSE v.name
        /\ LeadOver =>
              \A n \in 1..Len(ExpectedHourSeq) :
                  LET h == ExpectedHourSeq[n]
                  IN (ExpectedTiles("FCST", h) # <<>>
                        /\ ExpectedTiles("ANLY", h) # <<>>)
                     => \A v \in 1..Len(opt.VAR_LIST) :
                           Cardinality({k \in 1..Len(cmds) :
                                           cmds[k].fhr = h /\ cmds[k].var = v}) = 1

\* The formatted entries of the fields, one after the other with a comma
\* between two of them.
RECURSIVE FormattedFields(_)
FormattedFields(field_list) ==
    IF field_list = <<>> THEN ""
    ELSE IF Len(field_list) = 1 THEN "{ name=" \o field_list[1] \o "; }"
    ELSE FormattedFields(SubSeq(field_list, 1, Len(field_list) - 1))
           \o ",{ name=" \o field_list[Len(field_list)] \o "; }"

\* What set_data_field returned in the current runtime.
SetDataFieldReturned ==
    \E k \in 1..Len(steps) : steps[k] = [step |-> "set_data_field", ok |-> TRUE]

\* C26: set_data_field returns True exactly when the configured field
\* list is not empty and get_field_info succeeded for every field; then
\* DATA_FIELD is the comma-joined formatted entries of all configured
\* fields in configuration order; when it returns False DATA_FIELD is
\* left as it was and no environment variable is set in that runtime.
C26_SetDataField ==
    /\ [](prog = "grid_diag" /\ field_call # <<>> =>
            LET call == field_call[1]
            IN /\ SetDataFieldReturned
                    <=> (call.field_list # <<>> /\ call.bad = {})
               /\ SetDataFieldReturned =>
                    c_dict.DATA_FIELD = FormattedFields(call.field_list))
    /\ [][/\ (prog = "grid_diag" /\ pc = "set_data_field"
                /\ pc' = "for_custom")
             => /\ c_dict'.DATA_FIELD = c_dict.DATA_FIELD
                /\ env' = env
          /\ (prog = "grid_diag" /\ env' # env)
             => (pc = "set_environment_variables" /\ SetDataFieldReturned)
         ]_vars

\* C26's case: two configured fields, both visited.
C26_Witness ==
    /\ prog = "grid_diag" /\ pc = "build"
    /\ field_call # <<>> /\ field_call[1].field_list = <<"TMP", "UGRD">>
    /\ c_dict.DATA_FIELD = "{ name=TMP; },{ name=UGRD; }"
    /\ env.DATA_FIELD = "{ name=TMP; },{ name=UGRD; }"

\* The values parsed from the min.txt and from the max.txt files of a
\* list of netCDF files.
ParsedMins(files) ==
    {files[k].min[1] : k \in {n \in 1..Len(files) : files[n].min # <<>>}}

ParsedMaxs(files) ==
    {files[k].max[1] : k \in {n \in 1..Len(files) : files[n].max # <<>>}}

\* C27: when get_netcdf_min_max returns, VMIN is the minimum and VMAX the
\* maximum of the values parsed over all the files and VMIN <= VMAX, also
\* when no file yields a value and when the list of files is empty: the
\* initial values 999999 and -999999 are never returned.
C27_MinNotAboveMax ==
    prog = "get_netcdf_min_max" =>
        \A k \in 1..Len(ret) :
            ret[k].returned =>
                /\ ret[k].VMIN <= ret[k].VMAX
                /\ ret[k].VMIN # 999999 /\ ret[k].VMAX # -999999
                /\ \A v \in ParsedMins(ret[k].nc_var_files) : ret[k].VMIN <= v
                /\ \A v \in ParsedMaxs(ret[k].nc_var_files) : ret[k].VMAX >= v

\* The discoveries of the current run, as the trace of the run has them.
Discoveries ==
    SelectSeq(ltrace, LAMBDA e : e.ev \in {"fcst_tiles", "anly_tiles"})

\* C28: the directory the tiles are looked for in is the filtered output
\* directory exactly when filter options are set and the filtered
\* directory is not empty after filtering and pruning, and the extract
\* tiles directory in every other case; the FCST and the ANLY discovery of
\* every forecast hour of the run walk that same directory.
C28_SearchRoot ==
    (prog = "series_by_lead" /\ nruns >= 1) =>
        /\ tile_dir =
              IF opt.SERIES_ANALYSIS_FILTER_OPTS # "" /\ filtered_tree # <<>>
              THEN "/filtered" ELSE "/tiles"
        /\ Len(roots) = Len(Discoveries)
        /\ \A k \in 1..Len(roots) :
              /\ roots[k].root = tile_dir
              /\ roots[k].fhr = Discoveries[k].fhr
              /\ roots[k].type =
                    IF Discoveries[k].ev = "fcst_tiles" THEN "FCST" ELSE "ANLY"

\* C28's case: filter options that left files in the filtered directory,
\* and a run that looked there for the tiles of two forecast hours.
C28_Witness ==
    /\ prog = "series_by_lead" /\ lpc = "done"
    /\ opt.SERIES_ANALYSIS_FILTER_OPTS # "" /\ tile_dir = "/filtered"
    /\ \E a, b \in 1..Len(roots) :
          /\ roots[a].fhr < roots[b].fhr
          /\ roots[a].type = "FCST" /\ roots[b].type = "ANLY"
          /\ roots[a].root = "/filtered" /\ roots[b].root = "/filtered"

\* The list file name of the runtime, from init, valid and lead alone.
NameOfRuntime ==
    "grid_diag_files_init_" \o DateToken(time_info.init)
        \o "_valid_" \o DateToken(time_info.valid)
        \o "_lead_" \o LeadToken(time_info.lead) \o ".txt"

\* C29: the list file name depends on init, valid and lead and not on the
\* custom string: within one call of run_at_time_once every custom string
\* gives the same name, each custom iteration rewrites the same list file,
\* and the list file named by a command holds the subset computed in the
\* custom iteration of that command.
C29_SameListFile ==
    /\ [](prog = "grid_diag" =>
            /\ \A k \in 1..Len(wl_call) : wl_call[k].name = NameOfRuntime
            /\ DOMAIN list_files \subseteq {"/stage/file_lists/" \o NameOfRuntime}
            /\ pc = "build" =>
                  /\ infiles = << "/stage/file_lists/" \o NameOfRuntime >>
                  /\ list_files[infiles[1]] = MatchingInputs)
    /\ [][(prog = "grid_diag" /\ pc # "get_all_files") =>
              /\ time_info'.init = time_info.init
              /\ time_info'.valid = time_info.valid
              /\ time_info'.lead = time_info.lead]_vars

\* C29's case: the command of the second custom string is about to be
\* built after the first custom string wrote the list file and ran its
\* command.
C29_Witness ==
    /\ prog = "grid_diag" /\ pc = "build"
    /\ time_info.custom = "b"
    /\ Len(results) = 1 /\ results[1].custom = "a"
    /\ results[1].outcome \in {"succeeded", "failed"}
    /\ list_files[infiles[1]] # <<>>

\* The hours fhr_beg, fhr_beg + fhr_inc, ... not above fhr_end.
HoursOf(range) ==
    {h \in {0, 6} : /\ range.FHR_BEG <= h /\ h <= range.FHR_END
                    /\ (h - range.FHR_BEG) % range.FHR_INC = 0}

\* C30: for every forecast hour of fhr_beg..fhr_end (end included)
\* cleanup_lead_ascii removes every file below series_F<fhr>, at any
\* depth, whose name matches the FCST or the ANLY ASCII pattern, removes
\* no other file, and ends without an error, also for a file whose name
\* matches both patterns.
C30_CleanupRemovesManifests ==
    prog = "cleanup_lead_ascii" =>
        \A k \in 1..Len(ret) :
            /\ ~ret[k].raised
            /\ \A h \in {0, 6} :
                  ret[k].after[h] =
                      IF h \in HoursOf(ret[k].range)
                      THEN SelectSeq(ret[k].before[h],
                               LAMBDA f : /\ ~fcst_ascii_match(f.name)
                                          /\ ~anly_ascii_match(f.name))
                      ELSE ret[k].before[h]

====
